---- MODULE Spec2Model ----
(***************************************************************************)
(* Model of the filtering log of the Adguard browser extension             *)
(* (Extension/lib/filter/filtering-log.js): the tab registry tabsInfoMap,  *)
(* the bounded per-tab list of filtering events, the operations that bind  *)
(* rules and stealth actions to recorded events, and the counter of opened *)
(* filtering log pages that gates all recording; and of the OAuth service  *)
(* of the same file (lines 507-739): the cache of the sync providers'      *)
(* access tokens, its copy in adguard.localStorage and the one time        *)
(* security token.                                                         *)
(*                                                                         *)
(* JavaScript values are modelled as follows.  An optional property (one   *)
(* that may be absent or undefined) is a sequence of length 0 or 1: None   *)
(* when absent, Some(v) when it holds v.  An object is a record with one   *)
(* field for every property the code may set.  A URL is a sequence of      *)
(* tokens, <<host, path...>>.                                              *)
(***************************************************************************)
EXTENDS Integers, Sequences, FiniteSets, TLC

VARIABLES
    REQUESTS_SIZE_PER_TAB,     \* the capacity of a tab's list of events (line 24)
    hasBackgroundTab,          \* adguard.prefs.features.hasBackgroundTab
    tabsInfoMap,               \* tabId -> tabInfo
    openedFilteringLogsPage,   \* number of opened filtering log pages
    pendingSyncs,              \* adguard.tabs.getAll calls not yet answered
    published,                 \* notifications published by the last operation
    callbackArg,               \* argument of synchronizeOpenTabs' callback, last operation
    lastOp,                    \* the last operation called and its arguments
    accessTokens,              \* OAuth service: provider name -> tokens, null until read
    securityToken,             \* OAuth service: the one time token, null until asked for
    storedTokens,              \* adguard.localStorage's item 'sync-provider-auth-tokens'
    pendingRequests,           \* OAuth service: calls of a provider's requestAccessTokens
                               \* and refreshAccessToken not yet answered
    now,                       \* Date.now()
    lastCall                   \* the last operation of the OAuth service called, its
                               \* arguments and what it returned

logVars == <<REQUESTS_SIZE_PER_TAB, hasBackgroundTab, tabsInfoMap,
             openedFilteringLogsPage, pendingSyncs,
             published, callbackArg, lastOp>>

oauthVars == <<accessTokens, securityToken, storedTokens, pendingRequests, now,
               lastCall>>

vars == <<logVars, oauthVars>>

----------------------------------------------------------------------------
\* Bounds of the model

\* The capacity of a tab's list of events.  The source sets
\* REQUESTS_SIZE_PER_TAB to 1000 (filtering-log.js line 24) and never assigns
\* it again; the model runs the same code with a small capacity so that
\* overflow is reached.
RequestsSize == 2

\* The capacity where the order of the events kept is looked at: after the
\* first event there is room for two more, so that the events kept behind
\* the first one have an order.
AppendRequestsSize == 3

\* openedFilteringLogsPage is not incremented beyond this.
MaxPages == 2

\* adguard.tabs.getAll calls in flight at once.
MaxPending == 2

\* The requests recorded in a row are numbered up to this.
MaxAppends == 5

\* The times two seconds pass while the OAuth service is used.
MaxTicks == 1

\* Calls of a provider's requestAccessTokens and refreshAccessToken in
\* flight at once.
MaxRequests == 1

----------------------------------------------------------------------------
\* Optional values

None == <<>>

Some(v) == <<v>>

\* adguard.BACKGROUND_TAB_ID
backgroundTabId == -1

\* adguard.i18n.getMessage('background_tab_title')
backgroundTabTitle == "background"

backgroundTab ==
    [tabId |-> backgroundTabId, title |-> backgroundTabTitle,
     isExtensionTab |-> None, filteringEvents |-> None]

\* adguard.getURL('')
extensionURL == <<"ext">>

\* String.prototype.indexOf(prefix) === 0
StartsWith(url, prefix) ==
    /\ Len(url) >= Len(prefix)
    /\ SubSeq(url, 1, Len(prefix)) = prefix

\* The names of adguard.listeners' event types
TAB_ADDED == "TAB_ADDED"

TAB_CLOSE == "TAB_CLOSE"

TAB_UPDATE == "TAB_UPDATE"

TAB_RESET == "TAB_RESET"

LOG_EVENT_ADDED == "LOG_EVENT_ADDED"

LOG_EVENT_UPDATED == "LOG_EVENT_UPDATED"

\* adguard.listeners.notifyListeners(type, tabInfo[, event]): the notification
\* as a listener sees it when it is published.
Notification(type, tabInfo, event) ==
    [type |-> type, tabInfo |-> tabInfo, event |-> event]

----------------------------------------------------------------------------
\* The tab registry.  The registry operations take and return a record
\* [map, pub]: tabsInfoMap and the notifications published so far.

HasTab(map, tabId) == tabId \in DOMAIN map

\* getFilteringInfoByTabId: tabsInfoMap[tabId], None when undefined
getFilteringInfoByTabId(tabId) ==
    IF HasTab(tabsInfoMap, tabId) THEN Some(tabsInfoMap[tabId]) ELSE None

\* tabsInfoMap[tabId] = tabInfo
PutTab(map, tabId, tabInfo) ==
    [id \in DOMAIN map \cup {tabId} |-> IF id = tabId THEN tabInfo ELSE map[id]]

\* delete tabsInfoMap[tabId]
DeleteTab(map, tabId) ==
    [id \in DOMAIN map \ {tabId} |-> map[id]]

\* tab.url && tab.url.indexOf(extensionURL) === 0: tab.url itself when it is
\* undefined (a tab without the field url; the value is None) or the empty
\* string (the url <<>>; the value is Some("")), and otherwise whether the
\* url begins with extensionURL
isExtensionTab(tab) ==
    IF "url" \notin DOMAIN tab
    THEN None
    ELSE IF tab.url = <<>>
    THEN Some("")
    ELSE Some(StartsWith(tab.url, extensionURL))

\* updateTabInfo starting from Object.create(null) for every tab, in the
\* registry or not
updateTabInfo_FromEmpty(map, tab) ==
    LET old == [tabId |-> tab.tabId, title |-> tab.title,
                isExtensionTab |-> None, filteringEvents |-> None]
    IN  [old EXCEPT !.tabId = tab.tabId,
                    !.title = tab.title,
                    !.isExtensionTab = isExtensionTab(tab)]

\* updateTabInfo: the tabInfo it stores and returns
updateTabInfo(map, tab) ==
    LET old == IF HasTab(map, tab.tabId)
               THEN map[tab.tabId]
               ELSE [tabId |-> tab.tabId, title |-> tab.title,
                     isExtensionTab |-> None, filteringEvents |-> None]
    IN  [old EXCEPT !.tabId = tab.tabId,
                    !.title = tab.title,
                    !.isExtensionTab = isExtensionTab(tab)]

addTab(st, tab) ==
    IF tab.tabId = backgroundTabId
    THEN st
    ELSE LET tabInfo == updateTabInfo(st.map, tab)
         IN  [map |-> PutTab(st.map, tab.tabId, tabInfo),
              pub |-> Append(st.pub, Notification(TAB_ADDED, tabInfo, None))]

\* removeTabById without delete tabsInfoMap[tabId]
removeTabById_WithoutDelete(st, tabId) ==
    IF tabId = backgroundTabId
    THEN st
    ELSE [map |-> st.map,
          pub |-> IF HasTab(st.map, tabId)
                  THEN Append(st.pub, Notification(TAB_CLOSE, st.map[tabId], None))
                  ELSE st.pub]

\* removeTabById without the check of backgroundTabId
removeTabById_NoBackgroundCheck(st, tabId) ==
    [map |-> DeleteTab(st.map, tabId),
     pub |-> IF HasTab(st.map, tabId)
             THEN Append(st.pub, Notification(TAB_CLOSE, st.map[tabId], None))
             ELSE st.pub]

removeTabById(st, tabId) ==
    IF tabId = backgroundTabId
    THEN st
    ELSE [map |-> DeleteTab(st.map, tabId),
          pub |-> IF HasTab(st.map, tabId)
                  THEN Append(st.pub, Notification(TAB_CLOSE, st.map[tabId], None))
                  ELSE st.pub]

\* updateTab returning at once for a tab that is not in the registry
updateTab_KnownTabsOnly(st, tab) ==
    IF tab.tabId = backgroundTabId \/ ~HasTab(st.map, tab.tabId)
    THEN st
    ELSE LET tabInfo == updateTabInfo(st.map, tab)
         IN  [map |-> PutTab(st.map, tab.tabId, tabInfo),
              pub |-> Append(st.pub, Notification(TAB_UPDATE, tabInfo, None))]

updateTab(st, tab) ==
    IF tab.tabId = backgroundTabId
    THEN st
    ELSE LET tabInfo == updateTabInfo(st.map, tab)
         IN  [map |-> PutTab(st.map, tab.tabId, tabInfo),
              pub |-> Append(st.pub, Notification(TAB_UPDATE, tabInfo, None))]

----------------------------------------------------------------------------
\* Rules and the properties the log copies from them.
\* A rule of the filtering engine is a record
\*   [class, filterId, ruleText, whiteListRule, cspRule, cspDirective,
\*    cookieOption, stealthActions]
\* where class names the constructor the rule is an instance of, cspRule is
\* the result of isCspRule(), cookieOption the result of getCookieOption(),
\* and cspDirective, cookieOption and stealthActions are optional.

\* {}: an object with none of the properties of a logged rule
EmptyObject ==
    [filterId |-> None, ruleText |-> None, contentRule |-> None, cssRule |-> None,
     whiteListRule |-> None, cspRule |-> None, cspDirective |-> None,
     cookieRule |-> None, replaceRule |-> None, isModifyingCookieRule |-> None]

\* JavaScript truthiness of an optional number
Truthy(opt) == opt # None /\ opt[1] # 0

appendProperties(destinationRule, sourceRule) ==
    LET base == [destinationRule EXCEPT !.filterId = Some(sourceRule.filterId),
                                        !.ruleText = Some(sourceRule.ruleText)]
    IN  IF sourceRule.class = "ContentFilterRule"
        THEN [base EXCEPT !.contentRule = Some(TRUE)]
        ELSE IF sourceRule.class = "CssFilterRule"
        THEN [base EXCEPT !.cssRule = Some(TRUE)]
        ELSE IF sourceRule.class = "UrlFilterRule"
        THEN [base EXCEPT !.whiteListRule = Some(sourceRule.whiteListRule),
                          !.cspRule = Some(sourceRule.cspRule),
                          !.cspDirective = sourceRule.cspDirective,
                          !.cookieRule = Some(sourceRule.cookieOption # None)]
        ELSE base

\* addRuleToFilteringEvent copying the rule's properties to the requestRule
\* the event has, if it has one, in place of a new object
addRuleToFilteringEvent_IntoOld(filteringEvent, requestRule) ==
    [filteringEvent EXCEPT !.requestRule =
        Some(appendProperties(IF filteringEvent.requestRule = None
                              THEN EmptyObject
                              ELSE filteringEvent.requestRule[1],
                              requestRule))]

addRuleToFilteringEvent(filteringEvent, requestRule) ==
    [filteringEvent EXCEPT !.requestRule =
        Some(appendProperties(EmptyObject, requestRule))]

\* replaceRules.forEach(...): the copies, in order
RECURSIVE CopyRules(_)
CopyRules(rules) ==
    IF rules = <<>>
    THEN <<>>
    ELSE <<appendProperties(EmptyObject, Head(rules))>> \o CopyRules(Tail(rules))

addReplaceRulesToFilteringEvent(filteringEvent, replaceRules) ==
    [filteringEvent EXCEPT
        !.requestRule = Some([EmptyObject EXCEPT !.replaceRule = Some(TRUE)]),
        !.replaceRules = Some(CopyRules(replaceRules))]

----------------------------------------------------------------------------
\* Filtering events

\* An event object with none of its properties set
EmptyEvent ==
    [eventId |-> None, requestUrl |-> None, requestDomain |-> None,
     frameUrl |-> None, frameDomain |-> None, requestType |-> None,
     requestThirdParty |-> None, element |-> None, cookieName |-> None,
     cookieValue |-> None, requestRule |-> None, replaceRules |-> None,
     stealthActions |-> None]

\* adguard.utils.url.getDomainName
getDomainName(url) == IF url = <<>> THEN None ELSE Some(url[1])

\* adguard.utils.url.isThirdPartyRequest
isThirdPartyRequest(requestUrl, frameUrl) ==
    getDomainName(requestUrl) # getDomainName(frameUrl)

\* adguard.utils.strings.elementToString
elementToString(element) == <<"<", element.tag, ">">>

\* tabInfo.filteringEvents as a sequence, empty when the property is absent
EventsOf(tabInfo) ==
    IF tabInfo.filteringEvents = None THEN <<>> ELSE tabInfo.filteringEvents[1]

\* Array.prototype.splice(0, 1): the oldest event removed
Splice01(events) == Tail(events)

\* Array.prototype.splice(-2, 1): the event before the last one removed
SpliceLastButOne(events) ==
    IF Len(events) >= 2
    THEN SubSeq(events, 1, Len(events) - 2) \o <<events[Len(events)]>>
    ELSE events

\* Array.prototype.splice(1, 1)
Splice11(events) ==
    IF Len(events) >= 2
    THEN <<events[1]>> \o SubSeq(events, 3, Len(events))
    ELSE events

\* pushFilteringEvent without the removal of an event above the capacity
pushFilteringEvent_NoSplice(st, tabId, filteringEvent) ==
    LET events == Append(EventsOf(st.map[tabId]), filteringEvent)
        tabInfo == [st.map[tabId] EXCEPT !.filteringEvents = Some(events)]
    IN  [map |-> PutTab(st.map, tabId, tabInfo),
         pub |-> Append(st.pub, Notification(LOG_EVENT_ADDED, tabInfo, Some(filteringEvent)))]

\* pushFilteringEvent with length >= REQUESTS_SIZE_PER_TAB in place of
\* length > REQUESTS_SIZE_PER_TAB
pushFilteringEvent_FullAtCapacity(st, tabId, filteringEvent) ==
    LET pushed == Append(EventsOf(st.map[tabId]), filteringEvent)
        events == IF Len(pushed) >= REQUESTS_SIZE_PER_TAB
                  THEN Splice11(pushed)
                  ELSE pushed
        tabInfo == [st.map[tabId] EXCEPT !.filteringEvents = Some(events)]
    IN  [map |-> PutTab(st.map, tabId, tabInfo),
         pub |-> Append(st.pub, Notification(LOG_EVENT_ADDED, tabInfo, Some(filteringEvent)))]

\* pushFilteringEvent with notifyListeners called before the removal of an
\* event above the capacity
pushFilteringEvent_NotifiesFirst(st, tabId, filteringEvent) ==
    LET pushed == Append(EventsOf(st.map[tabId]), filteringEvent)
        events == IF Len(pushed) > REQUESTS_SIZE_PER_TAB
                  THEN Splice11(pushed)
                  ELSE pushed
        seen == [st.map[tabId] EXCEPT !.filteringEvents = Some(pushed)]
        tabInfo == [st.map[tabId] EXCEPT !.filteringEvents = Some(events)]
    IN  [map |-> PutTab(st.map, tabId, tabInfo),
         pub |-> Append(st.pub, Notification(LOG_EVENT_ADDED, seen, Some(filteringEvent)))]

pushFilteringEvent(st, tabId, filteringEvent) ==
    LET pushed == Append(EventsOf(st.map[tabId]), filteringEvent)
        events == IF Len(pushed) > REQUESTS_SIZE_PER_TAB
                  THEN Splice11(pushed)
                  ELSE pushed
        tabInfo == [st.map[tabId] EXCEPT !.filteringEvents = Some(events)]
    IN  [map |-> PutTab(st.map, tabId, tabInfo),
         pub |-> Append(st.pub, Notification(LOG_EVENT_ADDED, tabInfo, Some(filteringEvent)))]

\* addHttpRequestEvent without the check of openedFilteringLogsPage
addHttpRequestEvent_NotGated(st, opened, tab, requestUrl, frameUrl, requestType, requestRule, eventId) ==
    IF ~HasTab(st.map, tab.tabId)
    THEN st
    ELSE LET filteringEvent ==
                 [EmptyEvent EXCEPT
                     !.eventId = Some(eventId),
                     !.requestUrl = Some(requestUrl),
                     !.requestDomain = getDomainName(requestUrl),
                     !.frameUrl = Some(frameUrl),
                     !.frameDomain = getDomainName(frameUrl),
                     !.requestType = Some(requestType),
                     !.requestThirdParty = Some(isThirdPartyRequest(requestUrl, frameUrl))]
         IN  pushFilteringEvent(st, tab.tabId,
                 IF requestRule # None
                 THEN addRuleToFilteringEvent(filteringEvent, requestRule[1])
                 ELSE filteringEvent)

\* addHttpRequestEvent without the copy of the rule's properties
addHttpRequestEvent_WithoutRule(st, opened, tab, requestUrl, frameUrl, requestType, requestRule, eventId) ==
    IF opened = 0
    THEN st
    ELSE IF ~HasTab(st.map, tab.tabId)
    THEN st
    ELSE pushFilteringEvent(st, tab.tabId,
             [EmptyEvent EXCEPT
                 !.eventId = Some(eventId),
                 !.requestUrl = Some(requestUrl),
                 !.requestDomain = getDomainName(requestUrl),
                 !.frameUrl = Some(frameUrl),
                 !.frameDomain = getDomainName(frameUrl),
                 !.requestType = Some(requestType),
                 !.requestThirdParty = Some(isThirdPartyRequest(requestUrl, frameUrl))])

addHttpRequestEvent(st, opened, tab, requestUrl, frameUrl, requestType, requestRule, eventId) ==
    IF opened = 0
    THEN st
    ELSE IF ~HasTab(st.map, tab.tabId)
    THEN st
    ELSE LET filteringEvent ==
                 [EmptyEvent EXCEPT
                     !.eventId = Some(eventId),
                     !.requestUrl = Some(requestUrl),
                     !.requestDomain = getDomainName(requestUrl),
                     !.frameUrl = Some(frameUrl),
                     !.frameDomain = getDomainName(frameUrl),
                     !.requestType = Some(requestType),
                     !.requestThirdParty = Some(isThirdPartyRequest(requestUrl, frameUrl))]
         IN  pushFilteringEvent(st, tab.tabId,
                 IF requestRule # None
                 THEN addRuleToFilteringEvent(filteringEvent, requestRule[1])
                 ELSE filteringEvent)

addCosmeticEvent(st, opened, tab, element, frameUrl, requestType, requestRule) ==
    IF opened = 0
    THEN st
    ELSE IF requestRule = None
    THEN st
    ELSE IF ~HasTab(st.map, tab.tabId)
    THEN st
    ELSE LET filteringEvent ==
                 [EmptyEvent EXCEPT
                     !.element = Some(IF element.type = "string"
                                      THEN element.value
                                      ELSE elementToString(element)),
                     !.frameUrl = Some(frameUrl),
                     !.frameDomain = getDomainName(frameUrl),
                     !.requestType = Some(requestType)]
         IN  pushFilteringEvent(st, tab.tabId,
                 addRuleToFilteringEvent(filteringEvent, requestRule[1]))

\* addCookieEvent without the return at openedFilteringLogsPage === 0
addCookieEvent_NotGated(st, opened, tab, cookieName, cookieValue, cookieDomain, requestType, cookieRule, isModifyingCookieRule, thirdParty) ==
    IF ~HasTab(st.map, tab.tabId)
    THEN st
    ELSE LET filteringEvent ==
                 [EmptyEvent EXCEPT
                     !.frameDomain = Some(cookieDomain),
                     !.requestType = Some(requestType),
                     !.requestThirdParty = Some(thirdParty),
                     !.cookieName = Some(cookieName),
                     !.cookieValue = Some(cookieValue)]
             withRule == addRuleToFilteringEvent(filteringEvent, cookieRule[1])
             withFlag == [withRule EXCEPT !.requestRule[1].isModifyingCookieRule =
                                              Some(isModifyingCookieRule)]
         IN  pushFilteringEvent(st, tab.tabId,
                 IF cookieRule # None
                 THEN IF Truthy(cookieRule[1].stealthActions)
                      THEN [withFlag EXCEPT !.stealthActions = cookieRule[1].stealthActions]
                      ELSE withFlag
                 ELSE filteringEvent)

\* addCookieEvent without the assignment of isModifyingCookieRule
addCookieEvent_WithoutFlag(st, opened, tab, cookieName, cookieValue, cookieDomain, requestType, cookieRule, isModifyingCookieRule, thirdParty) ==
    IF opened = 0
    THEN st
    ELSE IF ~HasTab(st.map, tab.tabId)
    THEN st
    ELSE LET filteringEvent ==
                 [EmptyEvent EXCEPT
                     !.frameDomain = Some(cookieDomain),
                     !.requestType = Some(requestType),
                     !.requestThirdParty = Some(thirdParty),
                     !.cookieName = Some(cookieName),
                     !.cookieValue = Some(cookieValue)]
             withRule == addRuleToFilteringEvent(filteringEvent, cookieRule[1])
         IN  pushFilteringEvent(st, tab.tabId,
                 IF cookieRule # None
                 THEN IF Truthy(cookieRule[1].stealthActions)
                      THEN [withRule EXCEPT !.stealthActions = cookieRule[1].stealthActions]
                      ELSE withRule
                 ELSE filteringEvent)

addCookieEvent(st, opened, tab, cookieName, cookieValue, cookieDomain, requestType, cookieRule, isModifyingCookieRule, thirdParty) ==
    IF opened = 0
    THEN st
    ELSE IF ~HasTab(st.map, tab.tabId)
    THEN st
    ELSE LET filteringEvent ==
                 [EmptyEvent EXCEPT
                     !.frameDomain = Some(cookieDomain),
                     !.requestType = Some(requestType),
                     !.requestThirdParty = Some(thirdParty),
                     !.cookieName = Some(cookieName),
                     !.cookieValue = Some(cookieValue)]
             withRule == addRuleToFilteringEvent(filteringEvent, cookieRule[1])
             withFlag == [withRule EXCEPT !.requestRule[1].isModifyingCookieRule =
                                              Some(isModifyingCookieRule)]
         IN  pushFilteringEvent(st, tab.tabId,
                 IF cookieRule # None
                 THEN IF Truthy(cookieRule[1].stealthActions)
                      THEN [withFlag EXCEPT !.stealthActions = cookieRule[1].stealthActions]
                      ELSE withFlag
                 ELSE filteringEvent)

----------------------------------------------------------------------------
\* Binding rules and actions to a recorded event

\* The loop running from the oldest event to the newest: the position of the
\* first of the first i events with the eventId, 0 when there is none
FindEvent_Oldest(events, i, eventId) ==
    LET found == {j \in 1..i : events[j].eventId = Some(eventId)}
    IN  IF found = {}
        THEN 0
        ELSE CHOOSE j \in found : \A k \in found : j <= k

\* for (let i = events.length - 1; i >= 0; i -= 1) if (events[i].eventId === eventId):
\* the position of the event the loop stops at, 0 when it finds none.
\* Called with i = Len(events).
RECURSIVE FindEvent(_, _, _)
FindEvent(events, i, eventId) ==
    IF i = 0
    THEN 0
    ELSE IF events[i].eventId = Some(eventId)
    THEN i
    ELSE FindEvent(events, i - 1, eventId)

\* The loop shared by the three bind operations: the event found is replaced
\* by changed and LOG_EVENT_UPDATED is published with it.
UpdateFound(st, tabId, i, changed) ==
    LET events == [EventsOf(st.map[tabId]) EXCEPT ![i] = changed]
        tabInfo == [st.map[tabId] EXCEPT !.filteringEvents = Some(events)]
    IN  [map |-> PutTab(st.map, tabId, tabInfo),
         pub |-> Append(st.pub, Notification(LOG_EVENT_UPDATED, tabInfo, Some(changed)))]

\* bindRuleToHttpRequestEvent publishing LOG_EVENT_UPDATED after the loop,
\* whether or not it has found the event
bindRuleToHttpRequestEvent_AlwaysNotifies(st, opened, tab, requestRule, eventId) ==
    IF opened = 0
    THEN st
    ELSE IF ~HasTab(st.map, tab.tabId)
    THEN st
    ELSE LET events == EventsOf(st.map[tab.tabId])
             i == FindEvent(events, Len(events), eventId)
         IN  IF i = 0
             THEN [map |-> st.map,
                   pub |-> Append(st.pub,
                               Notification(LOG_EVENT_UPDATED, st.map[tab.tabId], None))]
             ELSE UpdateFound(st, tab.tabId, i,
                      addRuleToFilteringEvent(events[i], requestRule))

bindRuleToHttpRequestEvent(st, opened, tab, requestRule, eventId) ==
    IF opened = 0
    THEN st
    ELSE IF ~HasTab(st.map, tab.tabId)
    THEN st
    ELSE LET events == EventsOf(st.map[tab.tabId])
             i == FindEvent(events, Len(events), eventId)
         IN  IF i = 0
             THEN st
             ELSE UpdateFound(st, tab.tabId, i,
                      addRuleToFilteringEvent(events[i], requestRule))

bindReplaceRulesToHttpRequestEvent(st, opened, tab, replaceRules, eventId) ==
    IF opened = 0
    THEN st
    ELSE IF ~HasTab(st.map, tab.tabId)
    THEN st
    ELSE LET events == EventsOf(st.map[tab.tabId])
             i == FindEvent(events, Len(events), eventId)
         IN  IF i = 0
             THEN st
             ELSE UpdateFound(st, tab.tabId, i,
                      addReplaceRulesToFilteringEvent(events[i], replaceRules))

bindStealthActionsToHttpRequestEvent(st, opened, tab, actions, eventId) ==
    IF opened = 0
    THEN st
    ELSE IF ~HasTab(st.map, tab.tabId)
    THEN st
    ELSE LET events == EventsOf(st.map[tab.tabId])
             i == FindEvent(events, Len(events), eventId)
         IN  IF i = 0
             THEN st
             ELSE UpdateFound(st, tab.tabId, i,
                      [events[i] EXCEPT !.stealthActions = Some(actions)])

\* clearEventsByTabId deleting the events of every tab, as the closing of the
\* last filtering log page does
clearEventsByTabId_EveryTab(st, tabId) ==
    IF HasTab(st.map, tabId)
    THEN LET tabInfo == [st.map[tabId] EXCEPT !.filteringEvents = None]
         IN  [map |-> [id \in DOMAIN st.map |->
                          [st.map[id] EXCEPT !.filteringEvents = None]],
              pub |-> Append(st.pub, Notification(TAB_RESET, tabInfo, None))]
    ELSE st

clearEventsByTabId(st, tabId) ==
    IF HasTab(st.map, tabId)
    THEN LET tabInfo == [st.map[tabId] EXCEPT !.filteringEvents = None]
         IN  [map |-> PutTab(st.map, tabId, tabInfo),
              pub |-> Append(st.pub, Notification(TAB_RESET, tabInfo, None))]
    ELSE st

----------------------------------------------------------------------------
\* Synchronizing with the tabs the browser has open

\* A set of numbers as an ascending sequence
RECURSIVE Ascending(_)
Ascending(S) ==
    IF S = {}
    THEN <<>>
    ELSE LET m == CHOOSE x \in S : \A y \in S : x <= y
         IN  <<m>> \o Ascending(S \ {m})

\* Object.keys(tabsInfoMap).map(id => parseInt(id, 10)), also the order of
\* for (var tabId in tabsInfoMap): the keys that are array indices in
\* ascending order, then the other keys (of the tab ids the model uses, only
\* backgroundTabId is negative).
ObjectKeys(map) ==
    Ascending({id \in DOMAIN map : id >= 0})
        \o Ascending({id \in DOMAIN map : id < 0})

\* Array.prototype.indexOf, 1-based, 0 when absent
RECURSIVE IndexFrom(_, _, _)
IndexFrom(seq, x, i) ==
    IF i > Len(seq)
    THEN 0
    ELSE IF seq[i] = x THEN i ELSE IndexFrom(seq, x, i + 1)

\* Array.prototype.splice(index, 1), 1-based
RemoveAt(seq, i) == SubSeq(seq, 1, i - 1) \o SubSeq(seq, i + 1, Len(seq))

\* The loop over the open tabs with if (index > 0) in place of
\* if (index >= 0): the first id of tabIdsToRemove is never taken off
RECURSIVE OpenTabsLoop_IndexAboveZero(_, _, _)
OpenTabsLoop_IndexAboveZero(st, tabIdsToRemove, tabs) ==
    IF tabs = <<>>
    THEN [st |-> st, tabIdsToRemove |-> tabIdsToRemove]
    ELSE LET openTab == Head(tabs)
             st2 == IF ~HasTab(st.map, openTab.tabId)
                    THEN addTab(st, openTab)
                    ELSE updateTab(st, openTab)
             index == IndexFrom(tabIdsToRemove, openTab.tabId, 1)
         IN  OpenTabsLoop_IndexAboveZero(st2,
                          IF index > 1 THEN RemoveAt(tabIdsToRemove, index)
                                       ELSE tabIdsToRemove,
                          Tail(tabs))

\* The loop over the open tabs calling addTab for every open tab, in the
\* registry or not
RECURSIVE OpenTabsLoop_AlwaysAdds(_, _, _)
OpenTabsLoop_AlwaysAdds(st, tabIdsToRemove, tabs) ==
    IF tabs = <<>>
    THEN [st |-> st, tabIdsToRemove |-> tabIdsToRemove]
    ELSE LET openTab == Head(tabs)
             st2 == addTab(st, openTab)
             index == IndexFrom(tabIdsToRemove, openTab.tabId, 1)
         IN  OpenTabsLoop_AlwaysAdds(st2,
                          IF index >= 1 THEN RemoveAt(tabIdsToRemove, index)
                                        ELSE tabIdsToRemove,
                          Tail(tabs))

\* for (var i = 0; i < tabs.length; i++) { ... }: the registry, the
\* notifications and tabIdsToRemove after the loop over the open tabs
RECURSIVE OpenTabsLoop(_, _, _)
OpenTabsLoop(st, tabIdsToRemove, tabs) ==
    IF tabs = <<>>
    THEN [st |-> st, tabIdsToRemove |-> tabIdsToRemove]
    ELSE LET openTab == Head(tabs)
             st2 == IF ~HasTab(st.map, openTab.tabId)
                    THEN addTab(st, openTab)
                    ELSE updateTab(st, openTab)
             index == IndexFrom(tabIdsToRemove, openTab.tabId, 1)
         IN  OpenTabsLoop(st2,
                          IF index >= 1 THEN RemoveAt(tabIdsToRemove, index)
                                        ELSE tabIdsToRemove,
                          Tail(tabs))

\* The loop over tabIdsToRemove stopping after the first id
RemoveLoop_FirstOnly(st, tabIdsToRemove) ==
    IF tabIdsToRemove = <<>>
    THEN st
    ELSE removeTabById(st, Head(tabIdsToRemove))

\* for (var j = 0; j < tabIdsToRemove.length; j++) removeTabById(tabIdsToRemove[j])
RECURSIVE RemoveLoop(_, _)
RemoveLoop(st, tabIdsToRemove) ==
    IF tabIdsToRemove = <<>>
    THEN st
    ELSE RemoveLoop(removeTabById(st, Head(tabIdsToRemove)), Tail(tabIdsToRemove))

\* for (var tabId in tabsInfoMap) syncTabs.push(tabsInfoMap[tabId])
SyncTabs(map) ==
    LET keys == ObjectKeys(map)
    IN  [i \in 1..Len(keys) |-> map[keys[i]]]

\* The function synchronizeOpenTabs passes to adguard.tabs.getAll, called with
\* the open tabs: the registry, the notifications, and what the callback of
\* synchronizeOpenTabs receives (None when it is given no callback).
synchronizeOpenTabs(st, tabs, hasCallback) ==
    LET looped == OpenTabsLoop(st, ObjectKeys(st.map), tabs)
        st2 == RemoveLoop(looped.st, looped.tabIdsToRemove)
    IN  [map |-> st2.map,
         pub |-> st2.pub,
         arg |-> IF hasCallback THEN Some(SyncTabs(st2.map)) ELSE None]

----------------------------------------------------------------------------
\* Opening and closing filtering log pages

Max(a, b) == IF a >= b THEN a ELSE b

isOpen == openedFilteringLogsPage > 0

\* onCloseFilteringLogPage with openedFilteringLogsPage - 1 in place of
\* Math.max(openedFilteringLogsPage - 1, 0)
onCloseFilteringLogPage_NoFloor(st, opened) ==
    LET closed == opened - 1
    IN  [opened |-> closed,
         map |-> IF closed = 0
                 THEN [id \in DOMAIN st.map |->
                          [st.map[id] EXCEPT !.filteringEvents = None]]
                 ELSE st.map,
         pub |-> st.pub]

\* onCloseFilteringLogPage without the loop that deletes filteringEvents
onCloseFilteringLogPage_NoClear(st, opened) ==
    [opened |-> Max(opened - 1, 0), map |-> st.map, pub |-> st.pub]

\* The notifications of pub, then TAB_RESET for the tabs of keys in order
RECURSIVE ResetEach(_, _, _)
ResetEach(map, keys, pub) ==
    IF keys = <<>>
    THEN pub
    ELSE ResetEach(map, Tail(keys),
                   Append(pub, Notification(TAB_RESET,
                       [map[Head(keys)] EXCEPT !.filteringEvents = None], None)))

\* onCloseFilteringLogPage publishing TAB_RESET for every tab it clears, as
\* clearEventsByTabId does for one tab
onCloseFilteringLogPage_Reset(st, opened) ==
    LET closed == Max(opened - 1, 0)
    IN  [opened |-> closed,
         map |-> IF closed = 0
                 THEN [id \in DOMAIN st.map |->
                          [st.map[id] EXCEPT !.filteringEvents = None]]
                 ELSE st.map,
         pub |-> IF closed = 0
                 THEN ResetEach(st.map, ObjectKeys(st.map), st.pub)
                 ELSE st.pub]

\* onCloseFilteringLogPage on the registry st with opened pages open: the
\* counter, the registry and the notifications after the call
onCloseFilteringLogPage(st, opened) ==
    LET closed == Max(opened - 1, 0)
    IN  [opened |-> closed,
         map |-> IF closed = 0
                 THEN [id \in DOMAIN st.map |->
                          [st.map[id] EXCEPT !.filteringEvents = None]]
                 ELSE st.map,
         pub |-> st.pub]

----------------------------------------------------------------------------
\* The OAuth service (lines 507-739).
\*
\* A JavaScript value that may be undefined, null, a string or a number is
\* None when it is undefined, Null when it is null and Value(v) when it is
\* the string or number v.  The operations take and return a record
\* [accessTokens, securityToken, storedTokens]: the two variables of the
\* service and the item of adguard.localStorage.  accessTokens is Null or
\* Value(tokens), tokens a function from provider names to records
\* [token, expires, refreshToken].

Null == <<None>>

Value(v) == <<Some(v)>>

\* NaN is modelled by a number no time and no lifetime is.
NaN == Value(-1)

\* A value of expires for which parseInt gives NaN, such as 'soon'
Unparsable == Value(-2)

\* JavaScript truthiness of a value that is undefined, null or a string
TruthyString(v) == v # None /\ v # Null /\ v # Value("")

\* JavaScript truthiness of a value that is undefined, null, a number or
\* Unparsable
TruthyNumber(v) == v # None /\ v # Null /\ v # Value(0) /\ v # NaN

parseInt(v) == IF v = Unparsable \/ v = NaN THEN NaN ELSE v

\* v * k and n + v for a number or NaN v
Times(v, k) == IF v = NaN THEN NaN ELSE Value(v[1][1] * k)

Plus(n, v) == IF v = NaN THEN NaN ELSE Value(n + v[1][1])

\* Object.create(null)
ObjectCreateNull == [providerName \in {} |-> Null]

\* JSON.stringify(accessTokens): the text is modelled by the object it
\* denotes.  A property that is undefined is left out, which None stands
\* for already, and NaN is written as null.
JSONstringify(tokens) ==
    [providerName \in DOMAIN tokens |->
        [tokens[providerName] EXCEPT !.expires = IF @ = NaN THEN Null ELSE @]]

\* JSON.parse(item): null for the item that is not stored
JSONparse(item) == IF item = Null THEN Null ELSE Value(item[1][1])

\* object[key] = value
PutToken(tokens, providerName, value) ==
    [key \in DOMAIN tokens \cup {providerName} |->
        IF key = providerName THEN value ELSE tokens[key]]

\* getAccessTokens(providerName), providerName None when it is called
\* without one: the service after the call, the tokens of all providers,
\* and what is returned: all of them (whole) or those of the provider
\* (entry, None when accessTokens[providerName] is undefined).
getAccessTokens(st, providerName) ==
    LET parsed == JSONparse(st.storedTokens)
        loaded == IF st.accessTokens = Null
                  THEN IF parsed = Null THEN Value(ObjectCreateNull) ELSE parsed
                  ELSE st.accessTokens
        tokens == loaded[1][1]
    IN  [st |-> [st EXCEPT !.accessTokens = loaded],
         tokens |-> tokens,
         whole |-> ~TruthyString(providerName),
         entry |-> IF TruthyString(providerName) /\ providerName[1][1] \in DOMAIN tokens
                   THEN Value(tokens[providerName[1][1]])
                   ELSE None]

\* getSecurityToken(): random is Math.random().toString(36).substring(7)
getSecurityToken(st, random) ==
    IF ~TruthyString(st.securityToken)
    THEN [st EXCEPT !.securityToken = Value(random)]
    ELSE st

\* The sync providers of api, by name; each has getAuthUrl and revokeToken
apiProviders == {"DROPBOX"}

\* findProviderByName(providerName) finds a provider
findProviderByName(providerName) == providerName \in apiProviders

\* getAuthUrl(providerName, redirectUri): the service after the call and the
\* security token the provider makes the url with, Null without a provider
getAuthUrl(st, providerName, random) ==
    LET after == getSecurityToken(st, random)
    IN  [st |-> after,
         returned |-> IF findProviderByName(providerName)
                      THEN after.securityToken
                      ELSE Null]

\* getToken(providerName)
getToken(st, providerName) ==
    LET r == getAccessTokens(st, Value(providerName))
    IN  [st |-> r.st,
         returned |-> IF r.whole
                      THEN IF "token" \in DOMAIN r.tokens
                           THEN Value(r.tokens["token"])
                           ELSE None
                      ELSE IF r.entry # None
                           THEN r.entry[1][1].token
                           ELSE Null]

\* setToken without the comparison of securityToken with getSecurityToken()
setToken_TokenNotCompared(st, time, providerName, token, secToken, expires, refreshToken, random) ==
    LET r == getAccessTokens(st, None)
        tokens == PutToken(r.tokens, providerName,
                      [token |-> token,
                       expires |-> IF TruthyNumber(expires)
                                   THEN Plus(time, Times(parseInt(expires), 1000))
                                   ELSE Null,
                       refreshToken |-> refreshToken])
    IN  [st |-> [r.st EXCEPT !.accessTokens = Value(tokens),
                             !.storedTokens = Value(JSONstringify(tokens))],
         returned |-> TRUE]

\* setToken(providerName, token, securityToken, expires, refreshToken) at
\* the time Date.now(): the service after the call and what is returned
setToken(st, time, providerName, token, secToken, expires, refreshToken, random) ==
    LET checked == IF TruthyString(secToken) THEN getSecurityToken(st, random) ELSE st
        r == getAccessTokens(checked, None)
        tokens == PutToken(r.tokens, providerName,
                      [token |-> token,
                       expires |-> IF TruthyNumber(expires)
                                   THEN Plus(time, Times(parseInt(expires), 1000))
                                   ELSE Null,
                       refreshToken |-> refreshToken])
    IN  IF TruthyString(secToken) /\ secToken # checked.securityToken
        THEN [st |-> checked, returned |-> FALSE]
        ELSE [st |-> [r.st EXCEPT !.accessTokens = Value(tokens),
                                  !.storedTokens = Value(JSONstringify(tokens))],
              returned |-> TRUE]

\* revokeToken(providerName); the provider's revokeToken changes nothing of
\* the service
revokeToken(st, time, providerName) ==
    LET r == getAccessTokens(st, None)
    IN  IF providerName \in DOMAIN r.tokens
        THEN setToken(r.st, time, providerName, Null, None, None, None, "").st
        ELSE r.st

\* requestAccessTokens(providerName, accessCode, successCallback) up to its
\* return: the calls of providers waiting for an answer, the provider's
\* requestAccessTokens being called with accessCode and a callback
requestAccessTokens(pending, providerName, accessCode) ==
    IF findProviderByName(providerName)
    THEN Append(pending, [op |-> "requestAccessTokens", providerName |-> providerName,
                          accessCode |-> Value(accessCode), refreshToken |-> None])
    ELSE pending

\* The callback given to the provider's requestAccessTokens, called with
\* (token, refreshToken, expires): the service after it, and whether
\* successCallback is called
requestAccessTokensCallback(st, time, providerName, token, refreshToken, expires) ==
    setToken(st, time, providerName, token, Null, expires, refreshToken, "")

\* refreshAccessToken(providerName, successCallback) up to its return: the
\* service and the calls of providers waiting for an answer, the provider's
\* refreshAccessToken being called with the refreshToken of the provider's
\* tokens and a callback
refreshAccessToken(st, pending, providerName) ==
    IF findProviderByName(providerName)
    THEN LET r == getAccessTokens(st, None)
         IN  [st |-> r.st,
              pending |->
                  IF /\ providerName \in DOMAIN r.tokens
                     /\ TruthyString(r.tokens[providerName].refreshToken)
                  THEN Append(pending,
                           [op |-> "refreshAccessToken", providerName |-> providerName,
                            accessCode |-> None,
                            refreshToken |-> r.tokens[providerName].refreshToken])
                  ELSE pending]
    ELSE [st |-> st, pending |-> pending]

\* The callback given to the provider's refreshAccessToken, called with
\* (token, expires); refreshToken is the one the provider was called with
refreshAccessTokenCallback(st, time, providerName, refreshToken, token, expires) ==
    setToken(st, time, providerName, token, Null, expires, refreshToken, "")

\* isTokenExpired(providerName) at the time Date.now()
isTokenExpired(st, time, providerName) ==
    LET r == getAccessTokens(st, Value(providerName))
    IN  [st |-> r.st,
         returned |-> IF r.whole \/ r.entry = None
                      THEN FALSE
                      ELSE LET tokens == r.entry[1][1]
                           IN  IF \/ ~TruthyString(tokens.token)
                                  \/ ~TruthyNumber(tokens.expires)
                                  \/ ~TruthyString(tokens.refreshToken)
                               THEN FALSE
                               ELSE time > tokens.expires[1][1]]

\* isAuthorized(providerName)
isAuthorized(st, time, providerName) ==
    LET token == getToken(st, providerName)
    IN  IF token.returned = None \/ ~TruthyString(token.returned)
        THEN [st |-> token.st, returned |-> FALSE]
        ELSE [st |-> token.st,
              returned |-> ~isTokenExpired(token.st, time, providerName).returned]

----------------------------------------------------------------------------
\* The state machine

\* The operation called last: its name, the tab id and event id it was given
\* (None when it takes none), the open tabs a synchronization was answered
\* with, whether the operation before it was a synchronization answered with
\* the same open tabs, the number of opened pages before the call, the
\* length before the call of the event lists the operation may change, and,
\* of an operation that records an event, the rule it was given (None when
\* it was given null) and isModifyingCookieRule.
Op(name, tabId, eventId, tabs, lens) ==
    [op |-> name, tabId |-> tabId, eventId |-> eventId, tabs |-> tabs,
     again |-> (name = "getAll" /\ lastOp.op = "getAll" /\ lastOp.tabs = tabs),
     opened |-> openedFilteringLogsPage, lens |-> lens,
     rule |-> None, modifying |-> FALSE]

NoLens == [id \in {} |-> 0]

LenOf(tabId) ==
    IF HasTab(tabsInfoMap, tabId)
    THEN [id \in {tabId} |-> Len(EventsOf(tabsInfoMap[tabId]))]
    ELSE NoLens

\* The call of an operation that records an event in the list of tabId
RecordOp(name, tabId, rule, modifying) ==
    [Op(name, Some(tabId), None, <<>>, LenOf(tabId)) EXCEPT
        !.rule = rule, !.modifying = modifying]

AllLens == [id \in DOMAIN tabsInfoMap |-> Len(EventsOf(tabsInfoMap[id]))]

Start == [map |-> tabsInfoMap, pub |-> <<>>]

\* The state after the module's body has run (lines 24-40 and 462-469),
\* size being what line 24 sets the capacity to: the background tab is
\* registered when the platform has one, and the first synchronizeOpenTabs()
\* is waiting for adguard.tabs.getAll to answer.
InitFilteringLogOfSize(size) ==
    /\ REQUESTS_SIZE_PER_TAB = size
    /\ hasBackgroundTab \in BOOLEAN
    /\ tabsInfoMap = IF hasBackgroundTab
                     THEN [id \in {backgroundTabId} |-> backgroundTab]
                     ELSE [id \in {} |-> backgroundTab]
    /\ openedFilteringLogsPage = 0
    /\ pendingSyncs = <<FALSE>>
    /\ published = <<>>
    /\ callbackArg = None
    /\ lastOp = [op |-> "init", tabId |-> None, eventId |-> None, tabs |-> <<>>,
                 again |-> FALSE, opened |-> 0, lens |-> NoLens,
                 rule |-> None, modifying |-> FALSE]

InitFilteringLog == InitFilteringLogOfSize(RequestsSize)

\* The state after the body of the OAuth service has run (lines 511-514),
\* item being what adguard.localStorage has for 'sync-provider-auth-tokens'
InitOAuthService(item) ==
    /\ accessTokens = Null
    /\ securityToken = Null
    /\ storedTokens = item
    /\ pendingRequests = <<>>
    /\ now = 0
    /\ lastCall = [op |-> "init", providerName |-> "", token |-> None,
                   securityToken |-> None, returned |-> None]

\* The state after the bodies of both modules have run, nothing being stored
Init == InitFilteringLog /\ InitOAuthService(Null)

\* An operation that changes the registry only
Registry(st, op) ==
    /\ tabsInfoMap' = st.map
    /\ published' = st.pub
    /\ callbackArg' = None
    /\ lastOp' = op
    /\ UNCHANGED <<REQUESTS_SIZE_PER_TAB, hasBackgroundTab, openedFilteringLogsPage, pendingSyncs, oauthVars>>

\* adguard.tabs.onCreated
OnCreated(tab) ==
    Registry(addTab(Start, tab), Op("addTab", Some(tab.tabId), None, <<>>, NoLens))

\* adguard.tabs.onUpdated
OnUpdated(tab) ==
    Registry(updateTab(Start, tab), Op("updateTab", Some(tab.tabId), None, <<>>, NoLens))

\* adguard.tabs.onRemoved
OnRemoved(tab) ==
    Registry(removeTabById(Start, tab.tabId),
             Op("removeTabById", Some(tab.tabId), None, <<>>, NoLens))

\* synchronizeOpenTabs(callback) up to its call of adguard.tabs.getAll
SynchronizeOpenTabs(hasCallback) ==
    /\ Len(pendingSyncs) < MaxPending
    /\ pendingSyncs' = Append(pendingSyncs, hasCallback)
    /\ published' = <<>>
    /\ callbackArg' = None
    /\ lastOp' = Op("synchronizeOpenTabs", None, None, <<>>, NoLens)
    /\ UNCHANGED <<REQUESTS_SIZE_PER_TAB, hasBackgroundTab, tabsInfoMap, openedFilteringLogsPage, oauthVars>>

\* adguard.tabs.getAll answers the i-th waiting call with the open tabs
GetAllAnswers(i, tabs) ==
    /\ i \in 1..Len(pendingSyncs)
    /\ LET done == synchronizeOpenTabs(Start, tabs, pendingSyncs[i])
       IN  /\ tabsInfoMap' = done.map
           /\ published' = done.pub
           /\ callbackArg' = done.arg
    /\ pendingSyncs' = RemoveAt(pendingSyncs, i)
    /\ lastOp' = Op("getAll", None, None, tabs, NoLens)
    /\ UNCHANGED <<REQUESTS_SIZE_PER_TAB, hasBackgroundTab, openedFilteringLogsPage, oauthVars>>

AddHttpRequestEvent(tab, requestUrl, frameUrl, requestType, requestRule, eventId) ==
    Registry(addHttpRequestEvent(Start, openedFilteringLogsPage, tab, requestUrl,
                                 frameUrl, requestType, requestRule, eventId),
             RecordOp("addHttpRequestEvent", tab.tabId, requestRule, FALSE))

AddCosmeticEvent(tab, element, frameUrl, requestType, requestRule) ==
    Registry(addCosmeticEvent(Start, openedFilteringLogsPage, tab, element, frameUrl,
                              requestType, requestRule),
             RecordOp("addCosmeticEvent", tab.tabId, requestRule, FALSE))

AddCookieEvent(tab, cookieName, cookieValue, cookieDomain, requestType, cookieRule, isModifyingCookieRule, thirdParty) ==
    Registry(addCookieEvent(Start, openedFilteringLogsPage, tab, cookieName, cookieValue,
                            cookieDomain, requestType, cookieRule,
                            isModifyingCookieRule, thirdParty),
             RecordOp("addCookieEvent", tab.tabId, cookieRule, isModifyingCookieRule))

BindRuleToHttpRequestEvent(tab, requestRule, eventId) ==
    Registry(bindRuleToHttpRequestEvent(Start, openedFilteringLogsPage, tab,
                                        requestRule, eventId),
             Op("bindRuleToHttpRequestEvent", Some(tab.tabId), Some(eventId), <<>>,
                LenOf(tab.tabId)))

BindReplaceRulesToHttpRequestEvent(tab, replaceRules, eventId) ==
    Registry(bindReplaceRulesToHttpRequestEvent(Start, openedFilteringLogsPage, tab,
                                                replaceRules, eventId),
             Op("bindReplaceRulesToHttpRequestEvent", Some(tab.tabId), Some(eventId),
                <<>>, LenOf(tab.tabId)))

BindStealthActionsToHttpRequestEvent(tab, actions, eventId) ==
    Registry(bindStealthActionsToHttpRequestEvent(Start, openedFilteringLogsPage, tab,
                                                  actions, eventId),
             Op("bindStealthActionsToHttpRequestEvent", Some(tab.tabId), Some(eventId),
                <<>>, LenOf(tab.tabId)))

ClearEventsByTabId(tabId) ==
    Registry(clearEventsByTabId(Start, tabId),
             Op("clearEventsByTabId", Some(tabId), None, <<>>, LenOf(tabId)))

OnOpenFilteringLogPage ==
    /\ openedFilteringLogsPage < MaxPages
    /\ openedFilteringLogsPage' = openedFilteringLogsPage + 1
    /\ published' = <<>>
    /\ callbackArg' = None
    /\ lastOp' = Op("onOpenFilteringLogPage", None, None, <<>>, NoLens)
    /\ UNCHANGED <<REQUESTS_SIZE_PER_TAB, hasBackgroundTab, tabsInfoMap, pendingSyncs, oauthVars>>

OnCloseFilteringLogPage ==
    /\ LET done == onCloseFilteringLogPage(Start, openedFilteringLogsPage)
       IN  /\ openedFilteringLogsPage' = done.opened
           /\ tabsInfoMap' = done.map
           /\ published' = done.pub
    /\ callbackArg' = None
    /\ lastOp' = Op("onCloseFilteringLogPage", None, None, <<>>, AllLens)
    /\ UNCHANGED <<REQUESTS_SIZE_PER_TAB, hasBackgroundTab, pendingSyncs, oauthVars>>

----------------------------------------------------------------------------
\* The inputs the operations are called with

Tab(tabId, title, url) == [tabId |-> tabId, title |-> title, url |-> url]

\* A tab the browser tells of without a url
TabWithoutUrl(tabId, title) == [tabId |-> tabId, title |-> title]

SiteUrl == <<"site.example", "page">>

FrameUrl == <<"site.example", "frame">>

AdsUrl == <<"ads.example", "banner">>

LogPageUrl == <<"ext", "log.html">>

UrlRule ==
    [class |-> "UrlFilterRule", filterId |-> 1, ruleText |-> "||ads.example^",
     whiteListRule |-> FALSE, cspRule |-> FALSE, cspDirective |-> None,
     cookieOption |-> None, stealthActions |-> None]

WhiteListCspRule ==
    [class |-> "UrlFilterRule", filterId |-> 2, ruleText |-> "@@||site.example^$csp=script-src",
     whiteListRule |-> TRUE, cspRule |-> TRUE, cspDirective |-> Some("script-src"),
     cookieOption |-> None, stealthActions |-> None]

CssRule ==
    [class |-> "CssFilterRule", filterId |-> 2, ruleText |-> "##.banner",
     whiteListRule |-> FALSE, cspRule |-> FALSE, cspDirective |-> None,
     cookieOption |-> None, stealthActions |-> None]

ContentRule ==
    [class |-> "ContentFilterRule", filterId |-> 3, ruleText |-> "$$script",
     whiteListRule |-> FALSE, cspRule |-> FALSE, cspDirective |-> None,
     cookieOption |-> None, stealthActions |-> None]

CookieRule ==
    [class |-> "UrlFilterRule", filterId |-> 4, ruleText |-> "$cookie=id",
     whiteListRule |-> FALSE, cspRule |-> FALSE, cspDirective |-> None,
     cookieOption |-> Some("id"), stealthActions |-> None]

StealthCookieRule ==
    [class |-> "UrlFilterRule", filterId |-> -1, ruleText |-> "$cookie=/.+/;maxAge=60",
     whiteListRule |-> FALSE, cspRule |-> FALSE, cspDirective |-> None,
     cookieOption |-> Some("/.+/"), stealthActions |-> Some(8)]

ReplaceRule ==
    [class |-> "UrlFilterRule", filterId |-> 5, ruleText |-> "$replace=/a/b/",
     whiteListRule |-> FALSE, cspRule |-> FALSE, cspDirective |-> None,
     cookieOption |-> None, stealthActions |-> None]

StringElement == [type |-> "string", value |-> <<"<div class=banner>">>]

NodeElement == [type |-> "node", tag |-> "div"]

\* The sequences of at most n tabs of T with different tab ids: what
\* adguard.tabs.getAll may answer
TabLists(T, n) ==
    {l \in UNION {[1..k -> T] : k \in 0..n} :
        \A i, j \in 1..Len(l) : i # j => l[i].tabId # l[j].tabId}

\* The next-state relation, by group of operations, with the operations'
\* arguments drawn from the sets of D.

\* The browser's tab events
TabOps(D) ==
    \/ \E tab \in D.tabs : OnCreated(tab)
    \/ \E tab \in D.tabs : OnUpdated(tab)
    \/ \E tab \in D.tabs : OnRemoved(tab)

\* A call of synchronizeOpenTabs by the filtering log page
SyncRequests(D) ==
    \E hasCallback \in D.callbacks : SynchronizeOpenTabs(hasCallback)

\* The answer to a call of adguard.tabs.getAll that is waiting for one
SyncAnswers(D) ==
    \E i \in 1..Len(pendingSyncs), tabs \in D.tabLists : GetAllAnswers(i, tabs)

\* Recording a request
HttpOps(D) ==
    \E tabId \in D.tabIds, requestRule \in D.httpRules, eventId \in D.eventIds :
        AddHttpRequestEvent([tabId |-> tabId], AdsUrl, FrameUrl, "SCRIPT",
                            requestRule, eventId)

\* Recording an element and a cookie
CosmeticAndCookieOps(D) ==
    \/ \E tabId \in D.tabIds, element \in D.elements, requestRule \in D.cosmeticRules :
           AddCosmeticEvent([tabId |-> tabId], element, FrameUrl, "DOCUMENT", requestRule)
    \/ \E tabId \in D.tabIds, cookieRule \in D.cookieRules,
          isModifyingCookieRule \in D.modifying :
           AddCookieEvent([tabId |-> tabId], "id", "42", "site.example", "COOKIE",
                          cookieRule, isModifyingCookieRule, FALSE)

\* Binding to a recorded request
BindOps(D) ==
    \/ \E tabId \in D.tabIds, requestRule \in D.bindRules, eventId \in D.bindIds :
           BindRuleToHttpRequestEvent([tabId |-> tabId], requestRule, eventId)
    \/ \E tabId \in D.tabIds, replaceRules \in D.replaceRules, eventId \in D.bindIds :
           BindReplaceRulesToHttpRequestEvent([tabId |-> tabId], replaceRules, eventId)
    \/ \E tabId \in D.tabIds, actions \in D.actions, eventId \in D.bindIds :
           BindStealthActionsToHttpRequestEvent([tabId |-> tabId], actions, eventId)

\* The eventId of the next request of the tab, when requests are numbered
\* from 1 on in a list that starts empty: one more than the eventId of the
\* last event of the list
NextEventId(tabId) ==
    LET events == IF HasTab(tabsInfoMap, tabId)
                  THEN EventsOf(tabsInfoMap[tabId])
                  ELSE <<>>
    IN  IF events = <<>> THEN 1 ELSE events[Len(events)].eventId[1] + 1

\* Recording the requests of a tab numbered in the order of the calls
NumberedHttpOps(D) ==
    \E tabId \in D.tabIds :
        /\ NextEventId(tabId) <= MaxAppends
        /\ AddHttpRequestEvent([tabId |-> tabId], AdsUrl, FrameUrl, "SCRIPT",
                               None, NextEventId(tabId))

\* Clearing a tab's events, opening and closing filtering log pages
PageOps(D) ==
    \/ \E tabId \in D.tabIds : ClearEventsByTabId(tabId)
    \/ OnOpenFilteringLogPage
    \/ OnCloseFilteringLogPage

\* The log of one tab, on a platform with a background tab: requests 1 and 2
\* are recorded without a rule, rules and actions are bound to request 1.
\* The synchronization the module starts with is answered at any moment, and
\* the filtering log page asks for no other.
LogInputs ==
    [tabs |-> {Tab(1, "news", SiteUrl)},
     tabLists |-> TabLists({Tab(1, "news", SiteUrl)}, 1),
     tabIds |-> {1},
     eventIds |-> {1, 2},
     httpRules |-> {None},
     elements |-> {StringElement},
     cosmeticRules |-> {None, Some(CssRule)},
     cookieRules |-> {None},
     modifying |-> {FALSE},
     bindIds |-> {1},
     bindRules |-> {UrlRule},
     replaceRules |-> {<<ReplaceRule>>},
     actions |-> {3}]

Next ==
    \/ TabOps(LogInputs)
    \/ SyncAnswers(LogInputs)
    \/ HttpOps(LogInputs)
    \/ CosmeticAndCookieOps(LogInputs)
    \/ BindOps(LogInputs)
    \/ PageOps(LogInputs)

\* The state after the module's body has run on a platform with a background tab
InitWithBackgroundTab == Init /\ hasBackgroundTab = TRUE

Spec == InitWithBackgroundTab /\ [][Next]_vars

\* The recording of events in the log of one tab, on a platform with a
\* background tab: requests, elements and cookies are recorded with and
\* without a rule, cookies with a rule that has stealth actions and with one
\* that has none.
RecordInputs ==
    [tabs |-> {Tab(1, "news", SiteUrl)},
     tabLists |-> TabLists({Tab(1, "news", SiteUrl)}, 1),
     tabIds |-> {1},
     eventIds |-> {1},
     httpRules |-> {None, Some(UrlRule)},
     elements |-> {StringElement, NodeElement},
     cosmeticRules |-> {None, Some(CssRule)},
     cookieRules |-> {None, Some(CookieRule), Some(StealthCookieRule)},
     modifying |-> BOOLEAN]

NextRecord ==
    \/ TabOps(RecordInputs)
    \/ SyncAnswers(RecordInputs)
    \/ HttpOps(RecordInputs)
    \/ CosmeticAndCookieOps(RecordInputs)
    \/ PageOps(RecordInputs)

SpecRecord == InitWithBackgroundTab /\ [][NextRecord]_vars

\* The registry of two tabs and the background tab, on a platform with a
\* background tab and on one without: the tab events, synchronizations asked
\* for with a callback and answered with every list of open tabs, and the
\* recording of one request in the log of tab 1 and of the background tab.
TabsInputs ==
    [tabs |-> {Tab(1, "news", SiteUrl), Tab(1, "log", LogPageUrl),
               Tab(2, "mail", SiteUrl), Tab(backgroundTabId, "none", SiteUrl)},
     tabLists |-> TabLists({Tab(1, "news", SiteUrl), Tab(2, "mail", SiteUrl),
                            Tab(backgroundTabId, "none", SiteUrl)}, 2),
     callbacks |-> {TRUE},
     tabIds |-> {1, backgroundTabId},
     eventIds |-> {1},
     httpRules |-> {None}]

NextTabs ==
    \/ TabOps(TabsInputs)
    \/ SyncRequests(TabsInputs)
    \/ SyncAnswers(TabsInputs)
    \/ HttpOps(TabsInputs)
    \/ PageOps(TabsInputs)

SpecTabs == Init /\ [][NextTabs]_vars

----------------------------------------------------------------------------
\* The state machine of the OAuth service

\* The operation of the service called last: its name, the provider name,
\* the token and the security token it was given (None when it takes none)
\* and what it returned (None when it returns nothing)
OAuthCall(name, providerName, token, secToken, returned) ==
    [op |-> name, providerName |-> providerName, token |-> token,
     securityToken |-> secToken, returned |-> returned]

\* The service before the call
Service ==
    [accessTokens |-> accessTokens, securityToken |-> securityToken,
     storedTokens |-> storedTokens]

\* An operation of the service: st is the service after the call
OAuth(st, call) ==
    /\ accessTokens' = st.accessTokens
    /\ securityToken' = st.securityToken
    /\ storedTokens' = st.storedTokens
    /\ lastCall' = call
    /\ UNCHANGED <<pendingRequests, now, logVars>>

\* api.oauthService.getAuthUrl
GetAuthUrl(providerName, random) ==
    LET done == getAuthUrl(Service, providerName, random)
    IN  OAuth(done.st, OAuthCall("getAuthUrl", providerName, None, None, done.returned))

\* api.oauthService.getToken
GetToken(providerName) ==
    LET done == getToken(Service, providerName)
    IN  OAuth(done.st, OAuthCall("getToken", providerName, None, None, done.returned))

\* api.oauthService.setToken
SetToken(providerName, token, secToken, expires, refreshToken, random) ==
    LET done == setToken(Service, now, providerName, token, secToken, expires,
                         refreshToken, random)
    IN  OAuth(done.st, OAuthCall("setToken", providerName, token, secToken, done.returned))

\* api.oauthService.revokeToken
RevokeToken(providerName) ==
    OAuth(revokeToken(Service, now, providerName),
          OAuthCall("revokeToken", providerName, None, None, None))

\* api.oauthService.isAuthorized
IsAuthorized(providerName) ==
    LET done == isAuthorized(Service, now, providerName)
    IN  OAuth(done.st, OAuthCall("isAuthorized", providerName, None, None, done.returned))

\* api.oauthService.isTokenExpired
IsTokenExpired(providerName) ==
    LET done == isTokenExpired(Service, now, providerName)
    IN  OAuth(done.st, OAuthCall("isTokenExpired", providerName, None, None, done.returned))

\* An operation of the service that calls a provider or is called by one:
\* st is the service and pending the calls waiting after it
OAuthProvider(st, pending, call) ==
    /\ Len(pending) <= MaxRequests
    /\ accessTokens' = st.accessTokens
    /\ securityToken' = st.securityToken
    /\ storedTokens' = st.storedTokens
    /\ pendingRequests' = pending
    /\ lastCall' = call
    /\ UNCHANGED <<now, logVars>>

\* api.oauthService.requestAccessTokens
RequestAccessTokens(providerName, accessCode) ==
    OAuthProvider(Service, requestAccessTokens(pendingRequests, providerName, accessCode),
                  OAuthCall("requestAccessTokens", providerName, None, None, None))

\* The provider answers the i-th waiting call, one of requestAccessTokens
RequestAccessTokensAnswered(i, token, refreshToken, expires) ==
    /\ i \in 1..Len(pendingRequests)
    /\ pendingRequests[i].op = "requestAccessTokens"
    /\ LET providerName == pendingRequests[i].providerName
           done == requestAccessTokensCallback(Service, now, providerName, token,
                                               refreshToken, expires)
       IN  OAuthProvider(done.st, RemoveAt(pendingRequests, i),
                         OAuthCall("requestAccessTokens callback", providerName,
                                   token, Null, done.returned))

\* api.oauthService.refreshAccessToken
RefreshAccessToken(providerName) ==
    LET done == refreshAccessToken(Service, pendingRequests, providerName)
    IN  OAuthProvider(done.st, done.pending,
                      OAuthCall("refreshAccessToken", providerName, None, None, None))

\* The provider answers the i-th waiting call, one of refreshAccessToken
RefreshAccessTokenAnswered(i, token, expires) ==
    /\ i \in 1..Len(pendingRequests)
    /\ pendingRequests[i].op = "refreshAccessToken"
    /\ LET providerName == pendingRequests[i].providerName
           done == refreshAccessTokenCallback(Service, now, providerName,
                                              pendingRequests[i].refreshToken,
                                              token, expires)
       IN  OAuthProvider(done.st, RemoveAt(pendingRequests, i),
                         OAuthCall("refreshAccessToken callback", providerName,
                                   token, Null, done.returned))

\* Two seconds pass: Date.now() gives 2000 more
Tick ==
    /\ now < MaxTicks * 2000
    /\ now' = now + 2000
    /\ UNCHANGED <<accessTokens, securityToken, storedTokens, pendingRequests,
                   lastCall, logVars>>

\* The tokens of one provider, as setToken stores them
StoredItem ==
    Value(JSONstringify(PutToken(ObjectCreateNull, "DROPBOX",
              [token |-> Value("t0"), expires |-> Null, refreshToken |-> None])))

\* The arguments the operations of the service are called with: the tokens
\* of DROPBOX are set with and without a lifetime (expires and refreshToken
\* are given together or not at all), those of GDRIVE, which api has no
\* provider for, without one; and the strings
\* Math.random().toString(36).substring(7) gives, the empty string among
\* them
NoLifetime == [expires |-> None, refreshToken |-> None]

OAuthInputs ==
    [providerNames |-> {"DROPBOX", "GDRIVE"},
     tokens |-> [providerName \in {"DROPBOX", "GDRIVE"} |->
                    IF providerName = "DROPBOX"
                    THEN {Value("t1"), Value("t2")}
                    ELSE {Value("t2")}],
     securityTokens |-> {None, Value("s1"), Value("s2")},
     lifetimes |-> [providerName \in {"DROPBOX", "GDRIVE"} |->
                    IF providerName = "DROPBOX"
                    THEN {NoLifetime,
                          [expires |-> Value(1), refreshToken |-> Value("r1")],
                          [expires |-> Unparsable, refreshToken |-> Value("r1")]}
                    ELSE {NoLifetime}],
     randoms |-> {"", "s1"},
     accessCodes |-> {"code"},
     items |-> {Null, StoredItem}]

OAuthOps(D) ==
    \/ \E providerName \in D.providerNames, random \in D.randoms :
           GetAuthUrl(providerName, random)
    \/ \E providerName \in D.providerNames : GetToken(providerName)
    \/ \E providerName \in D.providerNames, secToken \in D.securityTokens,
          random \in D.randoms :
           \E token \in D.tokens[providerName], lifetime \in D.lifetimes[providerName] :
               SetToken(providerName, token, secToken, lifetime.expires,
                        lifetime.refreshToken, random)
    \/ \E providerName \in D.providerNames : RevokeToken(providerName)
    \/ \E providerName \in D.providerNames : IsAuthorized(providerName)
    \/ \E providerName \in D.providerNames : IsTokenExpired(providerName)
    \/ \E providerName \in D.providerNames, accessCode \in D.accessCodes :
           RequestAccessTokens(providerName, accessCode)
    \/ \E i \in 1..MaxRequests, providerName \in D.providerNames :
           \E token \in D.tokens[providerName], lifetime \in D.lifetimes[providerName] :
               /\ i <= Len(pendingRequests)
               /\ pendingRequests[i].providerName = providerName
               /\ RequestAccessTokensAnswered(i, token, lifetime.refreshToken,
                                              lifetime.expires)
    \/ \E providerName \in D.providerNames : RefreshAccessToken(providerName)
    \/ \E i \in 1..MaxRequests, providerName \in D.providerNames :
           \E token \in D.tokens[providerName], lifetime \in D.lifetimes[providerName] :
               /\ i <= Len(pendingRequests)
               /\ pendingRequests[i].providerName = providerName
               /\ RefreshAccessTokenAnswered(i, token, lifetime.expires)
    \/ Tick

NextOAuth == OAuthOps(OAuthInputs)

\* The state after the bodies of both modules have run, with and without
\* tokens stored by an earlier run
InitWithStoredTokens ==
    /\ InitFilteringLog
    /\ hasBackgroundTab = TRUE
    /\ \E item \in OAuthInputs.items : InitOAuthService(item)

SpecOAuth == InitWithStoredTokens /\ [][NextOAuth]_vars

----------------------------------------------------------------------------
\* Properties

RecordOpNames == {"addHttpRequestEvent", "addCosmeticEvent", "addCookieEvent"}

BindOpNames ==
    {"bindRuleToHttpRequestEvent", "bindReplaceRulesToHttpRequestEvent",
     "bindStealthActionsToHttpRequestEvent"}

\* The events of tab id in the registry map, none when the tab is not in it
Events(map, id) == IF HasTab(map, id) THEN EventsOf(map[id]) ELSE <<>>

\* The types of the notifications in pub
Types(pub) == {pub[i].type : i \in 1..Len(pub)}

\* C1: in every reachable state every tab's list of filtering events holds
\* at most REQUESTS_SIZE_PER_TAB events.
C1_AtMostCapacity ==
    \A id \in DOMAIN tabsInfoMap :
        Len(EventsOf(tabsInfoMap[id])) <= REQUESTS_SIZE_PER_TAB

\* C1: an event has been recorded in a list that was full.
C1_RecordedWhenFull ==
    /\ lastOp.op \in RecordOpNames
    /\ published # <<>>
    /\ \E id \in DOMAIN lastOp.lens :
           /\ lastOp.lens[id] = REQUESTS_SIZE_PER_TAB
           /\ Len(Events(tabsInfoMap, id)) = REQUESTS_SIZE_PER_TAB

\* An event without what the bind operations set on it
Unbound(event) ==
    [event EXCEPT !.requestRule = None, !.replaceRules = None, !.stealthActions = None]

\* C2: the first event of a tab's list stays the first: a step that records
\* an event leaves it first and unchanged, a step that binds to an event
\* leaves it first, and only clearEventsByTabId, the closing of the last
\* filtering log page and the removal of the tab (by the browser's event or
\* by a synchronization) take it away.
C2_FirstEventStays ==
    [][\A id \in DOMAIN tabsInfoMap :
           EventsOf(tabsInfoMap[id]) # <<>> =>
               \/ /\ Events(tabsInfoMap', id) # <<>>
                  /\ Unbound(Events(tabsInfoMap', id)[1])
                         = Unbound(EventsOf(tabsInfoMap[id])[1])
                  /\ lastOp'.op \in RecordOpNames =>
                         Events(tabsInfoMap', id)[1] = EventsOf(tabsInfoMap[id])[1]
               \/ /\ Events(tabsInfoMap', id) = <<>>
                  /\ \/ lastOp'.op = "clearEventsByTabId" /\ lastOp'.tabId = Some(id)
                     \/ lastOp'.op = "onCloseFilteringLogPage"
                            /\ openedFilteringLogsPage' = 0
                     \/ lastOp'.op = "removeTabById" /\ lastOp'.tabId = Some(id)
                     \/ lastOp'.op = "getAll" /\ ~HasTab(tabsInfoMap', id)]_vars

\* C2: an event has been recorded in a full list whose first event is
\* another request, which is still the first.
C2_FirstKeptWhenFull ==
    /\ lastOp.op = "addHttpRequestEvent"
    /\ published # <<>>
    /\ \E id \in DOMAIN lastOp.lens :
           /\ lastOp.lens[id] = REQUESTS_SIZE_PER_TAB
           /\ Events(tabsInfoMap, id)[1].eventId # None
           /\ Events(tabsInfoMap, id)[1].eventId # published[1].event[1].eventId

\* C3: while no filtering log page is open, a call of a record or bind
\* operation changes no tab, no list of events and no event, and publishes
\* nothing.
C3_NothingWhileClosed ==
    [][(openedFilteringLogsPage = 0
            /\ lastOp'.op \in RecordOpNames \cup BindOpNames) =>
           /\ tabsInfoMap' = tabsInfoMap
           /\ published' = <<>>
           /\ openedFilteringLogsPage' = 0]_vars

\* C3: a request has been recorded for a tab of the registry while no
\* filtering log page was open.
C3_RecordCalledWhileClosed ==
    /\ lastOp.op = "addHttpRequestEvent"
    /\ lastOp.opened = 0
    /\ lastOp.tabId # None
    /\ HasTab(tabsInfoMap, lastOp.tabId[1])

\* C4: openedFilteringLogsPage starts at 0 and is never negative: closing
\* with no page open leaves it 0, closing otherwise takes one off, opening
\* adds one, and isOpen is true exactly when it is above 0.
C4_CounterNotNegative ==
    /\ openedFilteringLogsPage >= 0
    /\ lastOp.op = "init" => openedFilteringLogsPage = 0
    /\ lastOp.op = "onCloseFilteringLogPage" =>
           openedFilteringLogsPage = IF lastOp.opened = 0 THEN 0 ELSE lastOp.opened - 1
    /\ lastOp.op = "onOpenFilteringLogPage" =>
           openedFilteringLogsPage = lastOp.opened + 1
    /\ isOpen <=> openedFilteringLogsPage # 0

\* C4: a page has been closed while none was open.
C4_ClosedWithNoneOpen ==
    /\ lastOp.op = "onCloseFilteringLogPage"
    /\ lastOp.opened = 0
    /\ ~isOpen

\* The number of notifications of the type for tab id in pub
Count(pub, type, id) ==
    Cardinality({i \in 1..Len(pub) : pub[i].type = type /\ pub[i].tabInfo.tabId = id})

\* C5: when a filtering log page is closed while exactly one is open, the
\* registry keeps the same tab ids, every tab keeps its tabId, title and
\* isExtensionTab, and no tab has filtering events any more.
C5_LastCloseClearsEvents ==
    [][(lastOp'.op = "onCloseFilteringLogPage" /\ openedFilteringLogsPage = 1) =>
           /\ openedFilteringLogsPage' = 0
           /\ DOMAIN tabsInfoMap' = DOMAIN tabsInfoMap
           /\ \A id \in DOMAIN tabsInfoMap :
                  /\ tabsInfoMap'[id].tabId = tabsInfoMap[id].tabId
                  /\ tabsInfoMap'[id].title = tabsInfoMap[id].title
                  /\ tabsInfoMap'[id].isExtensionTab = tabsInfoMap[id].isExtensionTab
                  /\ EventsOf(tabsInfoMap'[id]) = <<>>]_vars

\* C5: the only open page has been closed while two tabs had events, and
\* both tabs are still in the registry.
C5_ClosedWithEventsInTwoTabs ==
    /\ lastOp.op = "onCloseFilteringLogPage"
    /\ lastOp.opened = 1
    /\ \E id1, id2 \in DOMAIN lastOp.lens :
           /\ id1 # id2
           /\ lastOp.lens[id1] > 0
           /\ lastOp.lens[id2] > 0
           /\ getFilteringInfoByTabId(id1) # None
           /\ getFilteringInfoByTabId(id2) # None

\* C6 as claimed: when closing a page brings openedFilteringLogsPage to 0,
\* TAB_RESET is published once for every tab of the registry.
C6_ResetPublishedOnLastClose ==
    [][(lastOp'.op = "onCloseFilteringLogPage" /\ openedFilteringLogsPage = 1) =>
           \A id \in DOMAIN tabsInfoMap : Count(published', TAB_RESET, id) = 1]_vars

\* C6 as amended: closing a page publishes nothing, also when it brings
\* openedFilteringLogsPage to 0 and the events of every tab are cleared;
\* TAB_RESET is published by clearEventsByTabId only, for the tab it clears.
C6_CloseIsSilent ==
    [][/\ lastOp'.op = "onCloseFilteringLogPage" =>
              /\ published' = <<>>
              /\ openedFilteringLogsPage' = 0 =>
                     \A id \in DOMAIN tabsInfoMap' : EventsOf(tabsInfoMap'[id]) = <<>>
       /\ \A i \in 1..Len(published') :
              published'[i].type = TAB_RESET =>
                  /\ lastOp'.op = "clearEventsByTabId"
                  /\ lastOp'.tabId = Some(published'[i].tabInfo.tabId)]_vars

\* C6: the only open page has been closed while a tab of the registry had
\* events, and nothing has been published.
C6_ClosedAndNothingPublished ==
    /\ lastOp.op = "onCloseFilteringLogPage"
    /\ lastOp.opened = 1
    /\ openedFilteringLogsPage = 0
    /\ published = <<>>
    /\ \E id \in DOMAIN tabsInfoMap :
           /\ id \in DOMAIN lastOp.lens
           /\ lastOp.lens[id] > 0

\* The positions of the events with the eventId in events
Matching(events, eventId) ==
    {j \in 1..Len(events) : events[j].eventId = Some(eventId)}

\* The greatest number of the non-empty set S
Greatest(S) == CHOOSE m \in S : \A j \in S : j <= m

\* C7: while a filtering log page is open, a bind operation called for a
\* tab of the registry with an eventId that some event of the tab has
\* changes the last of the events with that eventId and no other event:
\* bindRuleToHttpRequestEvent sets its requestRule to the copy of the rule's
\* properties, bindReplaceRulesToHttpRequestEvent its requestRule to the
\* replaceRule mark and its replaceRules to the copies of the rules,
\* bindStealthActionsToHttpRequestEvent its stealthActions; and it
\* publishes LOG_EVENT_UPDATED exactly once, with that event.
C7_BindsToLastMatching ==
    [][(/\ lastOp'.op \in BindOpNames
        /\ openedFilteringLogsPage > 0
        /\ HasTab(tabsInfoMap, lastOp'.tabId[1])
        /\ Matching(EventsOf(tabsInfoMap[lastOp'.tabId[1]]), lastOp'.eventId[1]) # {}) =>
           LET id == lastOp'.tabId[1]
               old == EventsOf(tabsInfoMap[id])
               new == Events(tabsInfoMap', id)
               m == Greatest(Matching(old, lastOp'.eventId[1]))
           IN  /\ DOMAIN tabsInfoMap' = DOMAIN tabsInfoMap
               /\ \A other \in DOMAIN tabsInfoMap \ {id} :
                      tabsInfoMap'[other] = tabsInfoMap[other]
               /\ Len(new) = Len(old)
               /\ \A j \in 1..Len(old) : j # m => new[j] = old[j]
               /\ lastOp'.op = "bindRuleToHttpRequestEvent" =>
                      /\ new[m] = [old[m] EXCEPT !.requestRule = new[m].requestRule]
                      /\ new[m].requestRule =
                             Some([EmptyObject EXCEPT
                                      !.filterId = Some(UrlRule.filterId),
                                      !.ruleText = Some(UrlRule.ruleText),
                                      !.whiteListRule = Some(FALSE),
                                      !.cspRule = Some(FALSE),
                                      !.cookieRule = Some(FALSE)])
               /\ lastOp'.op = "bindReplaceRulesToHttpRequestEvent" =>
                      /\ new[m] = [old[m] EXCEPT !.requestRule = new[m].requestRule,
                                                 !.replaceRules = new[m].replaceRules]
                      /\ new[m].requestRule =
                             Some([EmptyObject EXCEPT !.replaceRule = Some(TRUE)])
                      /\ new[m].replaceRules # None
                      /\ Len(new[m].replaceRules[1]) = 1
                      /\ new[m].replaceRules[1][1].ruleText = Some(ReplaceRule.ruleText)
               /\ lastOp'.op = "bindStealthActionsToHttpRequestEvent" =>
                      new[m] = [old[m] EXCEPT !.stealthActions = Some(3)]
               /\ published' =
                      <<Notification(LOG_EVENT_UPDATED, tabsInfoMap'[id], Some(new[m]))>>]_vars

\* C7: a rule has been bound to request 1 of a tab that has recorded
\* request 1 twice, without a rule: the later event has the rule, the
\* earlier has none.
C7_BoundToLaterOfTwo ==
    /\ lastOp.op = "bindRuleToHttpRequestEvent"
    /\ Len(published) = 1
    /\ \E id \in DOMAIN tabsInfoMap :
           LET events == EventsOf(tabsInfoMap[id])
           IN  /\ Len(events) = 2
               /\ events[1].eventId = Some(1)
               /\ events[2].eventId = Some(1)
               /\ events[1].requestRule = None
               /\ events[2].requestRule # None
               /\ published[1].event = Some(events[2])

\* C8: a record or bind operation called with a tab that is not in the
\* registry, and a bind operation called with an eventId that no event of
\* the tab has (the tab may have no events), changes no tab, no list of
\* events and no event, and publishes nothing.
C8_UnknownTabOrEventIgnored ==
    [][(/\ lastOp'.op \in RecordOpNames \cup BindOpNames
        /\ \/ ~HasTab(tabsInfoMap, lastOp'.tabId[1])
           \/ /\ lastOp'.op \in BindOpNames
              /\ Matching(Events(tabsInfoMap, lastOp'.tabId[1]), lastOp'.eventId[1]) = {}) =>
           /\ tabsInfoMap' = tabsInfoMap
           /\ published' = <<>>
           /\ callbackArg' = None
           /\ UNCHANGED <<openedFilteringLogsPage, pendingSyncs, hasBackgroundTab>>]_vars

\* C8: while a filtering log page is open, a bind operation has been called
\* for a tab whose list of events is full and has no event with the eventId.
C8_BindCalledWithoutMatch ==
    /\ lastOp.op \in BindOpNames
    /\ lastOp.opened > 0
    /\ published = <<>>
    /\ HasTab(tabsInfoMap, lastOp.tabId[1])
    /\ Len(EventsOf(tabsInfoMap[lastOp.tabId[1]])) = REQUESTS_SIZE_PER_TAB
    /\ Matching(EventsOf(tabsInfoMap[lastOp.tabId[1]]), lastOp.eventId[1]) = {}

\* The tab ids of the open tabs
TabIds(tabs) == {tabs[i].tabId : i \in 1..Len(tabs)}

\* In a step that answers a synchronization, what holds of the i-th open
\* tab: it is in the registry with the open tab's title and extension mark;
\* when it was not in the registry TAB_ADDED is published for it, once; when
\* it was, it keeps its events and TAB_UPDATE is published for it, once.
OpenTabSynchronized(i) ==
    LET openTab == lastOp'.tabs[i]
        id == openTab.tabId
    IN  /\ HasTab(tabsInfoMap', id)
        /\ tabsInfoMap'[id].tabId = id
        /\ tabsInfoMap'[id].title = openTab.title
        /\ tabsInfoMap'[id].isExtensionTab = Some(StartsWith(openTab.url, extensionURL))
        /\ Count(published', TAB_CLOSE, id) = 0
        /\ IF HasTab(tabsInfoMap, id)
           THEN /\ tabsInfoMap'[id].filteringEvents = tabsInfoMap[id].filteringEvents
                /\ Count(published', TAB_UPDATE, id) = 1
                /\ Count(published', TAB_ADDED, id) = 0
           ELSE /\ tabsInfoMap'[id].filteringEvents = None
                /\ Count(published', TAB_ADDED, id) = 1
                /\ Count(published', TAB_UPDATE, id) = 0

\* In a step that answers a synchronization: every tab of the registry that
\* is not open, but the background tab, is removed and TAB_CLOSE is
\* published for it, once.
ClosedTabsRemoved ==
    \A id \in DOMAIN tabsInfoMap \ (TabIds(lastOp'.tabs) \cup {backgroundTabId}) :
        /\ ~HasTab(tabsInfoMap', id)
        /\ Count(published', TAB_CLOSE, id) = 1
        /\ Count(published', TAB_ADDED, id) = 0
        /\ Count(published', TAB_UPDATE, id) = 0

\* In a step that answers a synchronization: the callback of the call
\* answered, when it has one, receives exactly the tabs of the registry
\* after the step, each once.
CallbackReceivesRegistry ==
    \E i \in 1..Len(pendingSyncs) :
        /\ pendingSyncs' = RemoveAt(pendingSyncs, i)
        /\ IF pendingSyncs[i]
           THEN /\ callbackArg' # None
                /\ Len(callbackArg'[1]) = Cardinality(DOMAIN tabsInfoMap')
                /\ {callbackArg'[1][k] : k \in 1..Len(callbackArg'[1])}
                       = {tabsInfoMap'[id] : id \in DOMAIN tabsInfoMap'}
           ELSE callbackArg' = None

\* C9 as claimed: an answered synchronization adds every open tab that is
\* not in the registry and publishes TAB_ADDED for it, updates every open
\* tab that is in the registry and publishes TAB_UPDATE for it, removes
\* every tab of the registry that is not open, but the background tab, and
\* publishes TAB_CLOSE for it, and gives the callback the registry.
C9_EveryOpenTabSynchronized ==
    [][lastOp'.op = "getAll" =>
           /\ \A i \in 1..Len(lastOp'.tabs) : OpenTabSynchronized(i)
           /\ ClosedTabsRemoved
           /\ CallbackReceivesRegistry]_vars

\* C9 as amended: the same of every open tab but one with the background
\* tab's id; for that id the synchronization adds nothing to the registry,
\* changes nothing in it and publishes nothing, whether or not the open
\* tabs have it; and nothing else is published.
C9_OpenTabsSynchronized ==
    [][lastOp'.op = "getAll" =>
           /\ \A i \in 1..Len(lastOp'.tabs) :
                  lastOp'.tabs[i].tabId # backgroundTabId => OpenTabSynchronized(i)
           /\ ClosedTabsRemoved
           /\ HasTab(tabsInfoMap', backgroundTabId) <=> HasTab(tabsInfoMap, backgroundTabId)
           /\ HasTab(tabsInfoMap, backgroundTabId) =>
                  tabsInfoMap'[backgroundTabId] = tabsInfoMap[backgroundTabId]
           /\ \A k \in 1..Len(published') :
                  published'[k].tabInfo.tabId # backgroundTabId
           /\ Len(published') =
                  Cardinality((DOMAIN tabsInfoMap \cup TabIds(lastOp'.tabs))
                                  \ {backgroundTabId})
           /\ CallbackReceivesRegistry]_vars

\* C9: a synchronization with a callback has been answered with the
\* background tab's id and a new tab among the open tabs, while the registry
\* had the background tab and a tab that is no longer open.
C9_SynchronizedWithBackgroundOpen ==
    /\ lastOp.op = "getAll"
    /\ backgroundTabId \in TabIds(lastOp.tabs)
    /\ HasTab(tabsInfoMap, backgroundTabId)
    /\ callbackArg # None
    /\ Types(published) = {TAB_ADDED, TAB_CLOSE}

\* C10: when a synchronization is answered right after another that was
\* answered with the same open tabs, the second publishes TAB_UPDATE only
\* and leaves the registry with the same tab ids.
C10_SecondSynchronizationUpdatesOnly ==
    [][(/\ lastOp.op = "getAll"
        /\ lastOp'.op = "getAll"
        /\ lastOp'.tabs = lastOp.tabs) =>
           /\ Types(published') \subseteq {TAB_UPDATE}
           /\ DOMAIN tabsInfoMap' = DOMAIN tabsInfoMap]_vars

\* C10: two synchronizations have been answered in a row with the same two
\* open tabs, and the second has published TAB_UPDATE for both.
C10_SynchronizedTwice ==
    /\ lastOp.op = "getAll"
    /\ lastOp.again
    /\ Len(lastOp.tabs) = 2
    /\ Len(published) = 2
    /\ Types(published) = {TAB_UPDATE}

\* C11: on a platform with a background tab, the background tab is in the
\* registry, under its title, in every reachable state; the tab events
\* (created, updated, removed) for a tab with the background tab's id change
\* nothing in the registry and publish nothing; and an answered
\* synchronization, with or without that id among the open tabs, leaves the
\* background tab in the registry with its title and publishes nothing for it.
C11_BackgroundTabStays ==
    /\ [](hasBackgroundTab =>
              /\ HasTab(tabsInfoMap, backgroundTabId)
              /\ tabsInfoMap[backgroundTabId].tabId = backgroundTabId
              /\ tabsInfoMap[backgroundTabId].title = backgroundTabTitle)
    /\ [][(/\ hasBackgroundTab
            /\ lastOp'.op \in {"addTab", "updateTab", "removeTabById"}
            /\ lastOp'.tabId = Some(backgroundTabId)) =>
               /\ tabsInfoMap' = tabsInfoMap
               /\ published' = <<>>]_vars
    /\ [][(hasBackgroundTab /\ lastOp'.op = "getAll") =>
               /\ HasTab(tabsInfoMap', backgroundTabId)
               /\ tabsInfoMap'[backgroundTabId] = tabsInfoMap[backgroundTabId]
               /\ \A k \in 1..Len(published') :
                      published'[k].tabInfo.tabId # backgroundTabId]_vars

\* C11: on a platform with a background tab, a synchronization has been
\* answered with open tabs that do not have the background tab's id, a tab
\* that is no longer open has been removed, and the background tab is in the
\* registry.
C11_SynchronizedWithoutBackground ==
    /\ hasBackgroundTab
    /\ lastOp.op = "getAll"
    /\ backgroundTabId \notin TabIds(lastOp.tabs)
    /\ TAB_CLOSE \in Types(published)
    /\ HasTab(tabsInfoMap, backgroundTabId)

\* The smaller of two numbers
Min(a, b) == IF a <= b THEN a ELSE b

\* In a step that calls an operation that records an event: one event is
\* added at the end of the tab's list, LOG_EVENT_ADDED is published once,
\* with it, and the event has the copy of the rule's properties when the
\* operation was given a rule and no requestRule when it was given none.
RecordedWithRuleIfGiven ==
    LET id == lastOp'.tabId[1]
        old == EventsOf(tabsInfoMap[id])
        new == Events(tabsInfoMap', id)
    IN  /\ Len(new) = Min(Len(old) + 1, REQUESTS_SIZE_PER_TAB)
        /\ Len(published') = 1
        /\ published'[1].type = LOG_EVENT_ADDED
        /\ published'[1].event = Some(new[Len(new)])
        /\ lastOp'.op = "addHttpRequestEvent" => new[Len(new)].requestUrl # None
        /\ lastOp'.op = "addCosmeticEvent" => new[Len(new)].element # None
        /\ lastOp'.op = "addCookieEvent" => new[Len(new)].cookieName # None
        /\ IF lastOp'.rule = None
           THEN new[Len(new)].requestRule = None
           ELSE /\ new[Len(new)].requestRule # None
                /\ new[Len(new)].requestRule[1].filterId = Some(lastOp'.rule[1].filterId)
                /\ new[Len(new)].requestRule[1].ruleText = Some(lastOp'.rule[1].ruleText)

\* C12 as claimed: while a filtering log page is open, each of
\* addHttpRequestEvent, addCosmeticEvent and addCookieEvent called for a tab
\* of the registry adds one event, which has the copy of the rule's
\* properties exactly when a rule was given.
C12_EveryCallRecords ==
    [][(/\ lastOp'.op \in RecordOpNames
        /\ openedFilteringLogsPage > 0
        /\ HasTab(tabsInfoMap, lastOp'.tabId[1])) =>
           RecordedWithRuleIfGiven]_vars

\* C12 as amended: the same of addHttpRequestEvent and addCookieEvent, and
\* of addCosmeticEvent when it is given a rule; addCosmeticEvent given no
\* rule adds no event and publishes nothing.
C12_RecordsWithRuleIfGiven ==
    [][(/\ lastOp'.op \in RecordOpNames
        /\ openedFilteringLogsPage > 0
        /\ HasTab(tabsInfoMap, lastOp'.tabId[1])) =>
           IF lastOp'.op = "addCosmeticEvent" /\ lastOp'.rule = None
           THEN tabsInfoMap' = tabsInfoMap /\ published' = <<>>
           ELSE RecordedWithRuleIfGiven]_vars

\* C12: a request has been recorded with a rule after one recorded without:
\* the later event has a requestRule, the earlier has none.
C12_RecordedWithAndWithoutRule ==
    /\ lastOp.op = "addHttpRequestEvent"
    /\ lastOp.rule = Some(UrlRule)
    /\ Len(published) = 1
    /\ \E id \in DOMAIN tabsInfoMap :
           LET events == EventsOf(tabsInfoMap[id])
           IN  /\ Len(events) = 2
               /\ events[1].requestUrl # None
               /\ events[1].requestRule = None
               /\ events[2].requestRule # None
               /\ published[1].event = Some(events[2])

\* The last operation recorded an event: it was called while a filtering
\* log page was open, for a tab of the registry, and, if addCosmeticEvent,
\* with a rule.
Recorded ==
    /\ lastOp.op \in RecordOpNames
    /\ lastOp.opened > 0
    /\ lastOp.tabId[1] \in DOMAIN lastOp.lens
    /\ lastOp.op = "addCosmeticEvent" => lastOp.rule # None

\* C13: an operation that records an event publishes exactly one
\* notification, LOG_EVENT_ADDED with the tab as it is after the operation
\* and the new event; and in every notification, as published, the tab's
\* list of events has at most REQUESTS_SIZE_PER_TAB events, and the list of
\* a LOG_EVENT_ADDED ends with the new event.
C13_ListenersSeeFinishedList ==
    /\ Recorded =>
           /\ Len(published) = 1
           /\ published[1].type = LOG_EVENT_ADDED
           /\ published[1].tabInfo = tabsInfoMap[lastOp.tabId[1]]
    /\ \A k \in 1..Len(published) :
           LET events == EventsOf(published[k].tabInfo)
           IN  /\ Len(events) <= REQUESTS_SIZE_PER_TAB
               /\ published[k].type = LOG_EVENT_ADDED =>
                      /\ events # <<>>
                      /\ published[k].event = Some(events[Len(events)])

\* C13: a cookie has been recorded in a list that was full, and
\* LOG_EVENT_ADDED has been published with it.
C13_CookieRecordedWhenFull ==
    /\ Recorded
    /\ lastOp.op = "addCookieEvent"
    /\ lastOp.lens[lastOp.tabId[1]] = REQUESTS_SIZE_PER_TAB
    /\ published # <<>>
    /\ published[1].event[1].cookieName # None

\* The registry has one tab for each of its ids, and the background tab's
\* id only on a platform with a background tab.
RegistryWellFormed ==
    /\ \A id \in DOMAIN tabsInfoMap : tabsInfoMap[id].tabId = id
    /\ HasTab(tabsInfoMap, backgroundTabId) => hasBackgroundTab

\* C14 as claimed: however the tab events, the calls of synchronizeOpenTabs
\* and the answers of adguard.tabs.getAll interleave, the registry has one
\* tab for each of its ids, and when a synchronization has just been
\* answered with the open tabs, the ids of the registry are the ids of the
\* open tabs, and the background tab's id on a platform with a background
\* tab.
C14_RegistryIsOpenTabs ==
    /\ RegistryWellFormed
    /\ lastOp.op = "getAll" =>
           DOMAIN tabsInfoMap =
               TabIds(lastOp.tabs)
                   \cup (IF hasBackgroundTab THEN {backgroundTabId} ELSE {})

\* C14 as amended: the same, with the ids of the open tabs other than the
\* background tab's id.
C14_RegistryIsOpenTabsButBackground ==
    /\ RegistryWellFormed
    /\ lastOp.op = "getAll" =>
           DOMAIN tabsInfoMap =
               (TabIds(lastOp.tabs) \ {backgroundTabId})
                   \cup (IF hasBackgroundTab THEN {backgroundTabId} ELSE {})

\* C14: a synchronization has been answered while another call of
\* adguard.tabs.getAll is still waiting; it has added a tab and removed one.
C14_AnsweredWhileAnotherWaits ==
    /\ lastOp.op = "getAll"
    /\ Len(pendingSyncs) >= 1
    /\ backgroundTabId \notin TabIds(lastOp.tabs)
    /\ Types(published) = {TAB_ADDED, TAB_CLOSE}

\* The last operation recorded a cookie with a rule that has stealth
\* actions, and with isModifyingCookieRule true.
RecordedModifiedCookie ==
    /\ Recorded
    /\ lastOp.op = "addCookieEvent"
    /\ lastOp.modifying
    /\ lastOp.rule # None
    /\ Truthy(lastOp.rule[1].stealthActions)

\* C15: when addCookieEvent has been called with a rule that has stealth
\* actions and with isModifyingCookieRule true, while a filtering log page
\* was open and for a tab of the registry, the tab's list ends with the
\* cookie's event, whose requestRule is the copy of the rule's properties
\* with isModifyingCookieRule true and whose stealthActions are the rule's,
\* and exactly one notification has been published, LOG_EVENT_ADDED with
\* that event.
C15_ModifiedCookieRecorded ==
    RecordedModifiedCookie =>
        LET events == EventsOf(tabsInfoMap[lastOp.tabId[1]])
            event == events[Len(events)]
        IN  /\ Len(events) = Min(lastOp.lens[lastOp.tabId[1]] + 1, REQUESTS_SIZE_PER_TAB)
            /\ event.cookieName = Some("id")
            /\ event.cookieValue = Some("42")
            /\ event.requestRule # None
            /\ event.requestRule[1].filterId = Some(lastOp.rule[1].filterId)
            /\ event.requestRule[1].ruleText = Some(lastOp.rule[1].ruleText)
            /\ event.requestRule[1].cookieRule = Some(TRUE)
            /\ event.requestRule[1].isModifyingCookieRule = Some(TRUE)
            /\ event.stealthActions = lastOp.rule[1].stealthActions
            /\ published = <<Notification(LOG_EVENT_ADDED, tabsInfoMap[lastOp.tabId[1]],
                                          Some(event))>>

\* C15: such a cookie has been recorded, after another event of the tab.
C15_ModifiedCookieAfterAnother ==
    /\ RecordedModifiedCookie
    /\ lastOp.lens[lastOp.tabId[1]] >= 1
    /\ Len(published) = 1
    /\ published[1].event[1].stealthActions = Some(8)

\* C16: clearEventsByTabId called with the id of a tab of the registry
\* deletes the events of that tab and nothing else of it, leaves the other
\* tabs, their events and openedFilteringLogsPage as they are, and
\* publishes TAB_RESET once, for that tab, nothing else, with or without a
\* filtering log page open; called with another id it changes nothing and
\* publishes nothing.
C16_ClearsOneTab ==
    [][lastOp'.op = "clearEventsByTabId" =>
           LET id == lastOp'.tabId[1]
           IN  /\ openedFilteringLogsPage' = openedFilteringLogsPage
               /\ IF HasTab(tabsInfoMap, id)
                  THEN /\ DOMAIN tabsInfoMap' = DOMAIN tabsInfoMap
                       /\ tabsInfoMap'[id] = [tabsInfoMap[id] EXCEPT !.filteringEvents = None]
                       /\ \A other \in DOMAIN tabsInfoMap \ {id} :
                              tabsInfoMap'[other] = tabsInfoMap[other]
                       /\ published' = <<Notification(TAB_RESET, tabsInfoMap'[id], None)>>
                  ELSE /\ tabsInfoMap' = tabsInfoMap
                       /\ published' = <<>>]_vars

\* C16: the events of a tab have been cleared while another tab had events,
\* which it still has.
C16_ClearedOneOfTwo ==
    /\ lastOp.op = "clearEventsByTabId"
    /\ lastOp.tabId[1] \in DOMAIN lastOp.lens
    /\ lastOp.lens[lastOp.tabId[1]] > 0
    /\ Types(published) = {TAB_RESET}
    /\ EventsOf(tabsInfoMap[lastOp.tabId[1]]) = <<>>
    /\ \E other \in DOMAIN tabsInfoMap : EventsOf(tabsInfoMap[other]) # <<>>

\* C17: a tab's events go with the tab.  After removeTabById, called by the
\* browser's event or by a synchronization for a tab that is no longer
\* open, the registry has no tab of that id (the background tab, which is
\* never removed, apart); and a tab that enters the registry, by whatever
\* operation, has no events, whatever was recorded under its id before.
C17_EventsGoWithTab ==
    [][/\ (lastOp'.op = "removeTabById" /\ lastOp'.tabId # Some(backgroundTabId)) =>
              /\ ~HasTab(tabsInfoMap', lastOp'.tabId[1])
              /\ DOMAIN tabsInfoMap' = DOMAIN tabsInfoMap \ {lastOp'.tabId[1]}
       /\ lastOp'.op = "getAll" =>
              \A id \in DOMAIN tabsInfoMap \ (TabIds(lastOp'.tabs) \cup {backgroundTabId}) :
                  ~HasTab(tabsInfoMap', id)
       /\ \A id \in DOMAIN tabsInfoMap' \ DOMAIN tabsInfoMap :
              /\ tabsInfoMap'[id].filteringEvents = None
              /\ \A k \in 1..Len(published') :
                     published'[k].tabInfo.tabId = id =>
                         published'[k].tabInfo.filteringEvents = None]_vars

\* C17: the browser has removed a tab that had events: TAB_CLOSE has been
\* published with them and getFilteringInfoByTabId finds no tab of that id.
C17_RemovedWithEvents ==
    /\ lastOp.op = "removeTabById"
    /\ Len(published) = 1
    /\ published[1].type = TAB_CLOSE
    /\ EventsOf(published[1].tabInfo) # <<>>
    /\ getFilteringInfoByTabId(lastOp.tabId[1]) = None

\* C18: a bind operation leaves the tab's list with the same number of
\* events, in the same order, with the same eventIds, changes at most one
\* event, and of that event only what it binds: requestRule for
\* bindRuleToHttpRequestEvent, which becomes the copy of the new rule's
\* properties alone whatever it was, stealthActions staying as they are;
\* stealthActions for bindStealthActionsToHttpRequestEvent, requestRule and
\* replaceRules staying as they are; requestRule and replaceRules for
\* bindReplaceRulesToHttpRequestEvent.  The other tabs stay as they are.
C18_BindChangesWhatItBinds ==
    [][(lastOp'.op \in BindOpNames /\ HasTab(tabsInfoMap, lastOp'.tabId[1])) =>
           LET id == lastOp'.tabId[1]
               old == EventsOf(tabsInfoMap[id])
               new == Events(tabsInfoMap', id)
           IN  /\ DOMAIN tabsInfoMap' = DOMAIN tabsInfoMap
               /\ \A other \in DOMAIN tabsInfoMap \ {id} :
                      tabsInfoMap'[other] = tabsInfoMap[other]
               /\ tabsInfoMap'[id].title = tabsInfoMap[id].title
               /\ Len(new) = Len(old)
               /\ Cardinality({j \in 1..Len(old) : new[j] # old[j]}) <= 1
               /\ \A j \in 1..Len(old) :
                      /\ new[j].eventId = old[j].eventId
                      /\ lastOp'.op = "bindRuleToHttpRequestEvent" =>
                             /\ [new[j] EXCEPT !.requestRule = None]
                                    = [old[j] EXCEPT !.requestRule = None]
                             /\ new[j].requestRule # old[j].requestRule =>
                                    new[j].requestRule =
                                        Some([EmptyObject EXCEPT
                                                 !.filterId = Some(UrlRule.filterId),
                                                 !.ruleText = Some(UrlRule.ruleText),
                                                 !.whiteListRule = Some(FALSE),
                                                 !.cspRule = Some(FALSE),
                                                 !.cookieRule = Some(FALSE)])
                      /\ lastOp'.op = "bindStealthActionsToHttpRequestEvent" =>
                             [new[j] EXCEPT !.stealthActions = None]
                                 = [old[j] EXCEPT !.stealthActions = None]
                      /\ lastOp'.op = "bindReplaceRulesToHttpRequestEvent" =>
                             [new[j] EXCEPT !.requestRule = None, !.replaceRules = None]
                                 = [old[j] EXCEPT !.requestRule = None, !.replaceRules = None]]_vars

\* C18: a rule has been bound to a request that had replace rules and
\* stealth actions bound to it: its requestRule is the rule's, without the
\* replaceRule mark, and it has the replace rules and the stealth actions.
C18_RuleBoundOverReplaceRules ==
    /\ lastOp.op = "bindRuleToHttpRequestEvent"
    /\ Len(published) = 1
    /\ published[1].event[1].requestRule # None
    /\ published[1].event[1].requestRule[1].replaceRule = None
    /\ published[1].event[1].requestRule[1].ruleText = Some(UrlRule.ruleText)
    /\ published[1].event[1].replaceRules # None
    /\ published[1].event[1].stealthActions = Some(3)

\* Requests recorded in a row in the log of one tab, on a platform with a
\* background tab: the n-th request recorded since the list was last empty
\* has eventId n.  The capacity is AppendRequestsSize, so that two events
\* and more are kept behind the first one, and MaxAppends requests in a row
\* are two more than the list holds.  The browser tells of the tab with a
\* url, with the empty url and without a url.
AppendInputs ==
    [tabs |-> {Tab(1, "news", SiteUrl), Tab(1, "blank", <<>>),
               TabWithoutUrl(1, "nourl")},
     tabLists |-> TabLists({Tab(1, "news", SiteUrl)}, 1),
     tabIds |-> {1}]

NextAppend ==
    \/ TabOps(AppendInputs)
    \/ SyncAnswers(AppendInputs)
    \/ NumberedHttpOps(AppendInputs)
    \/ PageOps(AppendInputs)

InitAppend ==
    /\ InitFilteringLogOfSize(AppendRequestsSize)
    /\ InitOAuthService(Null)
    /\ hasBackgroundTab = TRUE

SpecAppend == InitAppend /\ [][NextAppend]_vars

\* The numbers from a to b in order
RECURSIVE Interval(_, _)
Interval(a, b) == IF a > b THEN <<>> ELSE <<a>> \o Interval(a + 1, b)

\* The eventIds of events
EventIds(events) == [j \in 1..Len(events) |-> events[j].eventId[1]]

\* The numbers of the requests that C19 has in the list after n requests
\* recorded in a row
Kept(n) ==
    IF n <= REQUESTS_SIZE_PER_TAB
    THEN Interval(1, n)
    ELSE <<1>> \o Interval(n - REQUESTS_SIZE_PER_TAB + 2, n)

\* C19: when n requests, numbered from 1 to n, have been recorded in a row
\* in a tab's list that was empty, with no clearing or removal in between,
\* the list holds the requests 1 to n in order if n is at most
\* REQUESTS_SIZE_PER_TAB, and otherwise request 1 followed by the last
\* REQUESTS_SIZE_PER_TAB - 1 requests in order.  The second conjunct is the
\* step from n - 1 to n: the request recorded is request n, and the first
\* conjunct then holds with n.
C19_KeepsFirstAndLatest ==
    /\ [](\A id \in DOMAIN tabsInfoMap :
              LET events == EventsOf(tabsInfoMap[id])
              IN  events # <<>> =>
                      /\ EventIds(events) = Kept(events[Len(events)].eventId[1])
                      /\ \A j \in 1..Len(events) : events[j].requestUrl = Some(AdsUrl))
    /\ [][(/\ lastOp'.op = "addHttpRequestEvent"
            /\ openedFilteringLogsPage > 0
            /\ HasTab(tabsInfoMap, lastOp'.tabId[1])) =>
               LET id == lastOp'.tabId[1]
                   n == NextEventId(id)
                   new == Events(tabsInfoMap', id)
               IN  /\ EventIds(new) = Kept(n)
                   /\ \A j \in 1..Len(new) :
                          \/ j = Len(new)
                          \/ \E k \in 1..Len(EventsOf(tabsInfoMap[id])) :
                                 new[j] = EventsOf(tabsInfoMap[id])[k]]_vars

\* C19: two more requests than REQUESTS_SIZE_PER_TAB have been recorded in
\* a row, in a list with room for two events and more behind the first one:
\* the list is full, it begins with request 1, and the requests behind it
\* are the last REQUESTS_SIZE_PER_TAB - 1 ones in the order they were
\* recorded in, requests 2 and 3 being the ones removed.
C19_RecordedTwoAboveCapacity ==
    /\ Recorded
    /\ lastOp.op = "addHttpRequestEvent"
    /\ REQUESTS_SIZE_PER_TAB >= 3
    /\ LET events == EventsOf(tabsInfoMap[lastOp.tabId[1]])
       IN  /\ Len(events) = REQUESTS_SIZE_PER_TAB
           /\ EventIds(events) = <<1>> \o Interval(4, REQUESTS_SIZE_PER_TAB + 2)

\* The tab id is in the registry before and after the step with the same
\* tabId and the same list of events, and the loop of the bind operations
\* finds every event of the list before the step at the same place in the
\* list after it.
KeepsEvents(id) ==
    /\ HasTab(tabsInfoMap', id)
    /\ tabsInfoMap'[id].tabId = tabsInfoMap[id].tabId
    /\ tabsInfoMap'[id].filteringEvents = tabsInfoMap[id].filteringEvents
    /\ LET before == Events(tabsInfoMap, id)
           after == Events(tabsInfoMap', id)
       IN  \A j \in 1..Len(before) :
               LET found == FindEvent(after, Len(after), before[j].eventId[1])
               IN  /\ found # 0
                   /\ found = FindEvent(before, Len(before), before[j].eventId[1])
                   /\ after[found].eventId = before[j].eventId

\* C20: updateTab for a tab of the registry, called for adguard.tabs'
\* onUpdated or by synchronizeOpenTabs for an open tab it finds in the
\* registry, changes the tab's title and isExtensionTab only: the tab's
\* list of events is the same list after it, and the events of the list
\* are found by the bind operations as before.  Nothing else of the
\* registry changes with onUpdated.
C20_UpdateKeepsEvents ==
    /\ [][(lastOp'.op = "updateTab" /\ HasTab(tabsInfoMap, lastOp'.tabId[1])) =>
              LET id == lastOp'.tabId[1]
              IN  /\ KeepsEvents(id)
                  /\ DOMAIN tabsInfoMap' = DOMAIN tabsInfoMap
                  /\ \A other \in DOMAIN tabsInfoMap \ {id} :
                         tabsInfoMap'[other] = tabsInfoMap[other]
                  /\ id # backgroundTabId =>
                         /\ Len(published') = 1
                         /\ published'[1].type = TAB_UPDATE
                         /\ published'[1].tabInfo = tabsInfoMap'[id]]_vars
    /\ [][lastOp'.op = "getAll" =>
              \A i \in 1..Len(lastOp'.tabs) :
                  LET openTab == lastOp'.tabs[i]
                  IN  HasTab(tabsInfoMap, openTab.tabId) =>
                          /\ KeepsEvents(openTab.tabId)
                          /\ openTab.tabId # backgroundTabId =>
                                 tabsInfoMap'[openTab.tabId].title = openTab.title]_vars

\* C20: onUpdated has told of tab 1 showing the filtering log's page while
\* the tab had an event recorded: its title and isExtensionTab have changed
\* and the event is in its list.
C20_UpdatedTabWithEvents ==
    /\ lastOp.op = "updateTab"
    /\ lastOp.tabId = Some(1)
    /\ Len(published) = 1
    /\ published[1].type = TAB_UPDATE
    /\ published[1].tabInfo.title = "log"
    /\ published[1].tabInfo.isExtensionTab = Some(TRUE)
    /\ Events(tabsInfoMap, 1) # <<>>

\* C21: in every reachable state in which openedFilteringLogsPage is 0, no
\* tab of the registry has the property filteringEvents: no list of events
\* and no event is kept, whatever tab events, answers of adguard.tabs.getAll
\* and record, bind, clear, open and close operations came before.
C21_NoEventsWhileClosed ==
    openedFilteringLogsPage = 0 =>
        \A id \in DOMAIN tabsInfoMap : tabsInfoMap[id].filteringEvents = None

\* C21: the only open page has been closed while the list of tab 1 was
\* full; the tab is in the registry without filteringEvents.
C21_ClosedWithFullList ==
    /\ lastOp.op = "onCloseFilteringLogPage"
    /\ lastOp.opened = 1
    /\ openedFilteringLogsPage = 0
    /\ 1 \in DOMAIN lastOp.lens
    /\ lastOp.lens[1] = REQUESTS_SIZE_PER_TAB
    /\ HasTab(tabsInfoMap, 1)
    /\ tabsInfoMap[1].filteringEvents = None

\* The step changes the registry at tab id only, leaves the tab in the
\* registry with that tabId and publishes one notification, of the type,
\* with the tab.
PutsAndPublishes(id, type) ==
    /\ DOMAIN tabsInfoMap' = DOMAIN tabsInfoMap \cup {id}
    /\ \A other \in DOMAIN tabsInfoMap \ {id} :
           tabsInfoMap'[other] = tabsInfoMap[other]
    /\ tabsInfoMap'[id].tabId = id
    /\ Len(published') = 1
    /\ published'[1].type = type
    /\ published'[1].tabInfo = tabsInfoMap'[id]

\* C22: onUpdated for a tab that is not the background tab and is not in
\* the registry puts the tab in the registry, without events, and publishes
\* TAB_UPDATE and not TAB_ADDED; onCreated for a tab that is in the registry
\* keeps the tab's list of events and publishes TAB_ADDED.
C22_UpdateAddsAndCreateUpdates ==
    /\ [][(/\ lastOp'.op = "updateTab"
            /\ lastOp'.tabId[1] # backgroundTabId
            /\ ~HasTab(tabsInfoMap, lastOp'.tabId[1])) =>
               /\ PutsAndPublishes(lastOp'.tabId[1], TAB_UPDATE)
               /\ tabsInfoMap'[lastOp'.tabId[1]].filteringEvents = None]_vars
    /\ [][(/\ lastOp'.op = "addTab"
            /\ lastOp'.tabId[1] # backgroundTabId
            /\ HasTab(tabsInfoMap, lastOp'.tabId[1])) =>
               /\ PutsAndPublishes(lastOp'.tabId[1], TAB_ADDED)
               /\ tabsInfoMap'[lastOp'.tabId[1]].filteringEvents =
                      tabsInfoMap[lastOp'.tabId[1]].filteringEvents]_vars

\* C22: onCreated has told of tab 1 while the tab was in the registry with
\* an event recorded: TAB_ADDED is published and the event is in the list.
C22_CreatedTabWithEvents ==
    /\ lastOp.op = "addTab"
    /\ lastOp.tabId = Some(1)
    /\ Len(published) = 1
    /\ published[1].type = TAB_ADDED
    /\ Events(tabsInfoMap, 1) # <<>>
    /\ published[1].tabInfo.filteringEvents = tabsInfoMap[1].filteringEvents

\* The service after the step
ServiceAfter ==
    [accessTokens |-> accessTokens', securityToken |-> securityToken',
     storedTokens |-> storedTokens']

\* C23: setToken called with a securityToken that is not empty and is not
\* the security token of the service returns false and leaves accessTokens
\* and the stored item as they are, for every provider.  Called with the
\* security token of the service or with none it returns true, and then
\* getToken(providerName) returns the token given and the stored item has
\* it.  After revokeToken(providerName) getToken(providerName) returns null
\* and isAuthorized(providerName) returns false.
C23_SetTokenChecksSecurityToken ==
    /\ [][(/\ lastCall'.op = "setToken"
            /\ TruthyString(lastCall'.securityToken)
            /\ lastCall'.securityToken # securityToken') =>
               /\ lastCall'.returned = FALSE
               /\ accessTokens' = accessTokens
               /\ storedTokens' = storedTokens]_vars
    /\ [][(/\ lastCall'.op \in {"setToken", "requestAccessTokens callback",
                               "refreshAccessToken callback"}
            /\ \/ ~TruthyString(lastCall'.securityToken)
               \/ lastCall'.securityToken = securityToken') =>
               /\ lastCall'.returned = TRUE
               /\ getToken(ServiceAfter, lastCall'.providerName).returned = lastCall'.token
               /\ storedTokens' # Null
               /\ JSONparse(storedTokens')[1][1][lastCall'.providerName].token
                      = lastCall'.token]_vars
    /\ [][lastCall'.op = "revokeToken" =>
               /\ getToken(ServiceAfter, lastCall'.providerName).returned = Null
               /\ isAuthorized(ServiceAfter, now', lastCall'.providerName).returned
                      = FALSE]_vars

\* C23: setToken has been called with a security token other than the one
\* of the service and has returned false, while tokens of both providers
\* were in accessTokens and stored.
C23_RefusedWithTokensOfTwoProviders ==
    /\ lastCall.op = "setToken"
    /\ lastCall.returned = FALSE
    /\ TruthyString(securityToken)
    /\ TruthyString(lastCall.securityToken)
    /\ lastCall.securityToken # securityToken
    /\ accessTokens # Null
    /\ DOMAIN accessTokens[1][1] = {"DROPBOX", "GDRIVE"}
    /\ \A providerName \in {"DROPBOX", "GDRIVE"} :
           /\ TruthyString(accessTokens[1][1][providerName].token)
           /\ accessTokens[1][1][providerName].token # lastCall.token
    /\ storedTokens = Value(JSONstringify(accessTokens[1][1]))

====
